---- MODULE Spec2Model ----
(***************************************************************************)
(* Module runtime of GHOST: the manifest loader (src/main/loader.ts), the  *)
(* IPC boundary (src/main/ipc.ts, src/preload/index.ts), the compile-time  *)
(* registry (src/main/modules.ts), the schema registrar (main/sync.ts) and *)
(* the echo module with its forward migration (src/modules/echo).          *)
(*                                                                         *)
(* Strings that the code inspects character by character (module ids) are  *)
(* sequences of one-character strings.  JavaScript values are tagged       *)
(* records, so that undefined, null, numbers and strings stay distinct.    *)
(***************************************************************************)
EXTENDS Integers, Sequences, FiniteSets, TLC

VARIABLES
  db,          \* db.ts `db`: the handle getDB() returns (NullDb when locked)
  handles,     \* number of handles openEncryptedDB has created so far
  sources,     \* the manifests (or module objects) discovery yields, in order
  lpc,         \* position of ModuleLoader.loadBuiltin: idle | next | import | init
  cursor,      \* index in sources of the manifest the loop is at
  cur,         \* the manifest and Context of the initialiseModule call in flight
  other,       \* lpc, cursor and cur of a second handler's load, waiting at an await
  calls,       \* the invocations made so far through ModuleRegistry.invoke, in order
  keyState,    \* db.ts `keyBuffer` and `cachedPassphrase`, and every key buffer derived
  patches,     \* the patchModuleSettings calls made so far, step by step
  registry,    \* ModuleLoader.registry: a Map, kept in insertion order
  settingsTbl, \* table module_settings: module_id -> json text
  store,       \* the other tables of the database and its indexes
  clock,       \* Date.now(), in milliseconds
  syncEnabled, \* SyncManager.syncStatus.enabled
  syncTables,  \* SyncManager.registeredTables
  modules,     \* ModuleRegistry.modules: ids in insertion order
  tools,       \* ModuleRegistry.tools: `${moduleId}.${fnName}` -> bound function
  hasLegacyTsColumn, \* the flag of modules/echo/index.ts
  replied,     \* the texts echo.reply has returned so far
  openHandles, \* the Database objects created by openEncryptedDB and not yet closed
  keychain,    \* the keytar entry ghost.e2e / master: "null" or the stored key
  systemInfo,  \* table system_info, in the database file: the biometric flags
  timers,      \* the intervals setInterval has created, in order: active or cleared
  syncInterval, \* SyncManager.syncInterval: 0 for null, else the index in timers
  currentAuthToken, \* ipc.ts `currentAuthToken`
  unlocking,   \* the ghost:unlock / ghost:create-password request in flight
  bio,         \* the ghost:enable-biometric / ghost:disable-biometric request in flight
  last         \* the last operation performed and what its caller observed

storeVars == <<store, clock, syncEnabled, syncTables>>
regVars == <<modules, tools, hasLegacyTsColumn, replied>>
syncTimerVars == <<timers, syncInterval>>
authRest == <<keychain, systemInfo, currentAuthToken, unlocking, bio>>
authVars == <<openHandles, syncTimerVars, authRest>>
vars == <<db, handles, sources, lpc, cursor, cur, other, calls, keyState, patches, registry, settingsTbl, storeVars, regVars, authVars, last>>

\* ---------------------------------------------------------------------------
\* Bounds of the model
\* ---------------------------------------------------------------------------
MaxBatch == 3     \* manifests discovery yields
MaxUnlocks == 2   \* openEncryptedDB calls in one run
MaxTicks == 2     \* milliseconds the clock advances
MaxInits == 2     \* SyncManager.init calls in one run

ClockStart == 5000  \* Date.now() when the run starts

\* ---------------------------------------------------------------------------
\* JavaScript values
\* ---------------------------------------------------------------------------
Undef == [t |-> "undefined", s |-> "", n |-> 0]
Str(s) == [t |-> "string", s |-> s, n |-> 0]
Num(n) == [t |-> "number", s |-> "", n |-> n]

UndefinedDb == [k |-> "undefined", n |-> 0]
NullDb == [k |-> "null", n |-> 0]
Handle(n) == [k |-> "handle", n |-> n]

NoSchema == [declared |-> FALSE, props |-> <<>>]

\* ---------------------------------------------------------------------------
\* Manifest schema (modules/_schema.ts)
\* ---------------------------------------------------------------------------
Lower == {"a", "b", "c", "e", "h", "o"}
Digit == {"1"}

\* pattern '^[a-z][a-z0-9-]*$'
IdPattern(id) ==
  /\ Len(id) >= 1
  /\ id[1] \in Lower
  /\ \A i \in 1..Len(id) : id[i] \in Lower \cup Digit \cup {"-"}

ValidateManifestPresenceOnly(m) ==
  /\ Len(m.id) >= 1
  /\ m.title # ""
  /\ m.main # ""

\* moduleManifestSchema: id pattern, version a number >= 1, title of
\* length >= 1, entry.main required.
ValidateManifest(m) ==
  /\ IdPattern(m.id)
  /\ m.version.whole >= 1
  /\ m.title # ""
  /\ m.main # ""

\* settingsSchema of the echo manifest: logLevel an enum of strings,
\* maxLogEntries a number in 10..100; no required, additional keys allowed.
EchoSettingsSchema ==
  [declared |-> TRUE,
   props |-> [logLevel |-> [type |-> "string", enum |-> {"debug", "info", "warn", "error"},
                            minimum |-> 0, maximum |-> 0],
              maxLogEntries |-> [type |-> "number", enum |-> {},
                                 minimum |-> 10, maximum |-> 100]]]

\* What importing entry.main yields: whether the import succeeds, the init
\* export (none, resolving, rejecting, or one that dereferences ctx.db as the
\* echo and ai-chat modules do), and the names of the other exported functions.
EntryCode(main) ==
  CASE main = "plain.js"   -> [imports |-> TRUE, init |-> "none", fns |-> {"ping"}]
    [] main = "ok.js"      -> [imports |-> TRUE, init |-> "resolves", fns |-> {"ping", "pong"}]
    [] main = "rejects.js" -> [imports |-> TRUE, init |-> "rejects", fns |-> {"ping"}]
    [] main = "echo.js"    -> [imports |-> TRUE, init |-> "usesDb", fns |-> {"reply", "getLog"}]
    [] OTHER               -> [imports |-> FALSE, init |-> "none", fns |-> {}]

\* the number a manifest gives as its version: n, or n + 0.5
Whole(n) == [whole |-> n, half |-> 0]
Half(n) == [whole |-> n, half |-> 1]

Manifest(id, version, caps, main, schema) ==
  [id |-> id, version |-> version, title |-> "t", caps |-> caps, main |-> main,
   settingsSchema |-> schema]

\* capabilities: "absent" (no capabilities object), "none" ({}), "db" ({db: true}),
\* "nodb" ({db: false})
Manifests ==
  { Manifest(<<"e">>, Whole(1), "db", "echo.js", EchoSettingsSchema),
    Manifest(<<"e">>, Whole(2), "absent", "plain.js", NoSchema),
    Manifest(<<"a">>, Whole(1), "nodb", "ok.js", NoSchema),
    Manifest(<<"a">>, Half(1), "db", "ok.js", EchoSettingsSchema),
    Manifest(<<"b", "-", "1">>, Whole(1), "none", "rejects.js", NoSchema),
    Manifest(<<"c">>, Whole(1), "db", "missing.js", NoSchema),
    Manifest(<<"A">>, Whole(1), "db", "ok.js", NoSchema),
    Manifest(<<"h">>, Whole(0), "db", "ok.js", NoSchema) }

\* manifest.capabilities?.db
CapDb(m) == m.caps = "db"

SeqsUpTo(S, n) == UNION { [1..k -> S] : k \in 0..n }

\* ---------------------------------------------------------------------------
\* The registry Map (insertion ordered)
\* ---------------------------------------------------------------------------
RegistryIds == { registry[i].manifest.id : i \in 1..Len(registry) }

\* Map.has
RegistryHas(id) == id \in RegistryIds

IndexOf(id) == CHOOSE i \in 1..Len(registry) : registry[i].manifest.id = id

\* Map.get (only used where RegistryHas holds)
RegistryGet(id) == registry[IndexOf(id)]

\* Map.set: replaces the value of an existing key in place, appends otherwise
RegistrySet(id, entry) ==
  IF RegistryHas(id) THEN [registry EXCEPT ![IndexOf(id)] = entry]
  ELSE Append(registry, entry)

\* ModuleLoader.list(): ids in Map order
List == [i \in 1..Len(registry) |-> registry[i].manifest.id]

EmptyStore == [tables |-> <<>>, indexes |-> {}]

\* the store as the loader and settings runs leave it: no module table, the
\* clock at its start, sync off
StoreIdle ==
  /\ store = EmptyStore
  /\ clock = ClockStart
  /\ syncEnabled = FALSE
  /\ syncTables = {}

\* the compile-time registry before loadModules has run
RegistryIdle ==
  /\ modules = <<>>
  /\ tools = <<>>
  /\ hasLegacyTsColumn = FALSE
  /\ replied = {}

\* no request in flight, nothing in the keychain, no flag row, no timer
NoUnlock == [pc |-> "idle", passphrase |-> "null", kind |-> "none", fromLocked |-> FALSE]
NoBio == [pc |-> "idle", passphrase |-> "null"]
NoFlags == [biometric_enabled |-> "absent", biometric_declined |-> "absent"]
AuthIdle ==
  /\ openHandles = IF db = NullDb THEN {} ELSE {db.n}
  /\ keychain = "null"
  /\ systemInfo = NoFlags
  /\ timers = <<>>
  /\ syncInterval = 0
  /\ currentAuthToken = "null"
  /\ unlocking = NoUnlock
  /\ bio = NoBio

NoCur == [manifest |-> Manifest(<<>>, Whole(0), "absent", "", NoSchema), ctx |-> [moduleId |-> <<>>, db |-> UndefinedDb]]

\* a handler that is not loading: the local state of its loadBuiltin call
NoRun == [lpc |-> "idle", cursor |-> 1, cur |-> NoCur]
NoOp == [op |-> "none"]

\* ---------------------------------------------------------------------------
\* Settings documents (loader.ts 176-215, ipc.ts 231-280)
\* ---------------------------------------------------------------------------
\* A settings object is a function from the keys it holds to values; a key may
\* hold undefined.  Reading a key the object lacks yields undefined.
Keys == {"logLevel", "maxLogEntries", "extra"}
KeyOrder == <<"logLevel", "maxLogEntries", "extra">>
EmptyObj == [k \in {} |-> Undef]
Obj1(k, v) == [x \in {k} |-> v]
Obj2(k1, v1, k2, v2) == [x \in {k1, k2} |-> IF x = k1 THEN v1 ELSE v2]
Read(o, k) == IF k \in DOMAIN o THEN o[k] ELSE Undef

\* equality as a caller can observe it: every key reads the same
ObjEq(a, b) == \A k \in Keys : Read(a, k) = Read(b, k)

\* JSON.stringify: the members in key order, without those holding undefined
Stringify(o) ==
  LET ks == SelectSeq(KeyOrder, LAMBDA k : k \in DOMAIN o /\ o[k].t # "undefined")
  IN [i \in 1..Len(ks) |-> <<ks[i], o[ks[i]]>>]

\* JSON.parse
Parse(text) ==
  [k \in { text[i][1] : i \in 1..Len(text) } |->
     text[CHOOSE i \in 1..Len(text) : text[i][1] = k][2]]

SpreadMergeCurrentWins(current, diff) ==
  [k \in DOMAIN current \cup DOMAIN diff |->
     IF k \in DOMAIN current THEN current[k] ELSE diff[k]]

\* { ...current, ...diff }
SpreadMerge(current, diff) ==
  [k \in DOMAIN current \cup DOMAIN diff |->
     IF k \in DOMAIN diff THEN diff[k] ELSE current[k]]

\* one property schema applied to a value (type, enum, minimum, maximum);
\* an empty enum stands for a schema without the enum keyword
ValueOk(c, v) ==
  /\ v.t = c.type
  /\ (c.enum # {} => v.s \in c.enum)
  /\ (c.type = "number" => (v.n >= c.minimum /\ v.n <= c.maximum))

\* the compiled validator of a settingsSchema: `properties` only constrains
\* the members that are present and not undefined
ValidateSettings(schema, o) ==
  \A k \in DOMAIN schema.props \cap DOMAIN o :
     o[k].t # "undefined" => ValueOk(schema.props[k], o[k])

\* the diffs callers send
Diffs ==
  { Obj1("logLevel", Str("debug")),
    Obj1("logLevel", Str("verbose")),
    Obj1("maxLogEntries", Num(50)),
    Obj1("maxLogEntries", Num(5)),
    Obj2("logLevel", Str("debug"), "maxLogEntries", Num(5)),
    Obj2("extra", Str("x"), "logLevel", Undef) }

\* SELECT json FROM module_settings WHERE module_id = ?
Row(id) ==
  IF id \in DOMAIN settingsTbl THEN [present |-> TRUE, json |-> settingsTbl[id]]
  ELSE [present |-> FALSE, json |-> <<>>]

\* result ? JSON.parse(result.json) : {}
RowObject(row) == IF row.present THEN Parse(row.json) ELSE EmptyObj

\* INSERT OR REPLACE INTO module_settings (module_id, json) VALUES (?, ?)
InsertOrReplace(id, json) ==
  [x \in DOMAIN settingsTbl \cup {id} |-> IF x = id THEN json ELSE settingsTbl[x]]

\* getModuleSettings with the database unlocked (loader.ts 181-185)
GetModuleSettings(id) == RowObject(Row(id))

\* ---------------------------------------------------------------------------
\* Database handle (db.ts)
\* ---------------------------------------------------------------------------
\* Key material (db.ts).  keyBuffer is 0 for null, else the index in buffers
\* of the Uint8Array it refers to; a buffer holds "key" until it is zeroized.
\* ---------------------------------------------------------------------------
NoKey == [keyBuffer |-> 0, cachedPassphrase |-> "null", buffers |-> <<>>]

\* openEncryptedDB: caches the passphrase and assigns a newly derived buffer to
\* keyBuffer; the buffer keyBuffer referred to before is left as it is
DeriveKey(k) ==
  [keyBuffer |-> Len(k.buffers) + 1, cachedPassphrase |-> "passphrase",
   buffers |-> Append(k.buffers, "key")]

\* lockDB: sodium.memzero on the buffer keyBuffer refers to, then the three
\* variables are null
WipeKey(k) ==
  [keyBuffer |-> 0, cachedPassphrase |-> "null",
   buffers |-> [n \in DOMAIN k.buffers |-> IF n = k.keyBuffer THEN "zero" ELSE k.buffers[n]]]

\* ---------------------------------------------------------------------------
\* ghost:unlock / ghost:create-password: openEncryptedDB succeeded, then
\* moduleRegistry.loadModules(db) -> moduleLoader.loadBuiltin() starts.
Unlock ==
  /\ lpc = "idle"
  /\ handles < MaxUnlocks
  /\ handles' = handles + 1
  /\ db' = Handle(handles + 1)
  /\ keyState' = DeriveKey(keyState)
  /\ lpc' = "next"
  /\ cursor' = 1
  /\ openHandles' = openHandles \cup {handles + 1}
  /\ last' = [op |-> "unlock"]
  /\ UNCHANGED <<other, calls, patches, sources, cur, registry, settingsTbl, storeVars, regVars,
                 syncTimerVars, authRest>>

\* clearInterval on the timer SyncManager.syncInterval refers to
ClearInterval(ts, n) == [i \in DOMAIN ts |-> IF i = n THEN "cleared" ELSE ts[i]]

\* lockDB: the Database object `db` refers to is closed
CloseDb(open, d) == open \ {d.n}

\* ghost:lock: SyncManager.shutdown() when sync is enabled, then lockDB(),
\* which closes the handle and sets db = null.  IPC handlers run between the
\* awaits of a load in progress.
Lock ==
  /\ db # NullDb
  /\ db' = NullDb
  /\ openHandles' = CloseDb(openHandles, db)
  /\ keyState' = WipeKey(keyState)
  /\ syncEnabled' = FALSE
  /\ syncTables' = IF syncEnabled THEN {} ELSE syncTables
  /\ timers' = IF syncEnabled THEN ClearInterval(timers, syncInterval) ELSE timers
  /\ syncInterval' = IF syncEnabled THEN 0 ELSE syncInterval
  /\ last' = [op |-> "lock"]
  /\ UNCHANGED <<other, calls, patches, handles, sources, lpc, cursor, cur, registry, settingsTbl, store, clock, regVars,
                 authRest>>

\* ---------------------------------------------------------------------------
\* ModuleLoader (loader.ts)
\* ---------------------------------------------------------------------------
BuildContextUngated(m) == [moduleId |-> m.id, db |-> db]

\* The Context initialiseModule builds (loader.ts 309-315)
BuildContext(m) ==
  [moduleId |-> m.id, db |-> IF CapDb(m) THEN db ELSE UndefinedDb]

\* The bound function table and the registry entry (loader.ts 322-333)
LoadedModule(m, ctx) ==
  [manifest |-> m, functions |-> [f \in EntryCode(m.main).fns |-> ctx]]

\* The loop of loadBuiltin moves on to the next source.
Advance(outcome) ==
  /\ cursor' = cursor + 1
  /\ lpc' = "next"
  /\ cur' = NoCur
  /\ last' = [op |-> "register", src |-> cursor, outcome |-> outcome]

AbortLoad(outcome) ==
  /\ cursor' = Len(sources) + 1
  /\ lpc' = "next"
  /\ cur' = NoCur
  /\ last' = [op |-> "register", src |-> cursor, outcome |-> outcome]

\* registerManifest threw: loadBuiltin catches, logs and goes on with the
\* next source (loader.ts 49-54).
Caught(outcome) == Advance(outcome)

DuplicateGuardOff(m) == FALSE

\* Duplicate ID guard (loader.ts 238-241)
DuplicateGuard(m) == RegistryHas(m.id)

\* registerManifest up to its first await (loader.ts 228-259, 284-306)
RegisterManifest ==
  /\ lpc = "next"
  /\ cursor <= Len(sources)
  /\ LET m == sources[cursor] IN
       IF ~ValidateManifest(m)
         THEN Caught("INVALID_MANIFEST") /\ UNCHANGED registry
       ELSE IF DuplicateGuard(m)
         THEN Advance("duplicate") /\ UNCHANGED registry
       ELSE /\ lpc' = "import"
            /\ cur' = [NoCur EXCEPT !.manifest = m]
            /\ last' = [op |-> "import", src |-> cursor]
            /\ UNCHANGED <<other, calls, keyState, patches, cursor, registry>>
  /\ UNCHANGED <<other, calls, keyState, patches, db, handles, sources, settingsTbl, storeVars, regVars, authVars>>

\* import(mainUrl) settles; the Context is built; init, if exported, is called
\* (loader.ts 305-320)
ImportSettle ==
  /\ lpc = "import"
  /\ LET m == cur.manifest
         code == EntryCode(m.main)
         ctx == BuildContext(m) IN
       IF ~code.imports
         THEN Caught("import failed") /\ UNCHANGED registry
       ELSE IF code.init = "none"
         THEN /\ registry' = RegistrySet(m.id, LoadedModule(m, ctx))
              /\ Advance("registered")
       ELSE /\ lpc' = "init"
            /\ cur' = [manifest |-> m, ctx |-> ctx]
            /\ last' = [op |-> "init", src |-> cursor]
            /\ UNCHANGED <<other, calls, keyState, patches, cursor, registry>>
  /\ UNCHANGED <<other, calls, keyState, patches, db, handles, sources, settingsTbl, storeVars, regVars, authVars>>

\* Whether the init hook resolves: "usesDb" dereferences ctx.db at once
\* (ensureEchoLogSchema(ctx.db), ctx.db.exec), which throws on null/undefined.
InitResolves(code, ctx) ==
  \/ code.init = "resolves"
  \/ code.init = "usesDb" /\ ctx.db.k = "handle"

\* await moduleInstance.init(context) settles (loader.ts 319-335)
InitSettle ==
  /\ lpc = "init"
  /\ LET m == cur.manifest IN
       IF InitResolves(EntryCode(m.main), cur.ctx)
         THEN /\ registry' = RegistrySet(m.id, LoadedModule(m, cur.ctx))
              /\ Advance("registered")
         ELSE Caught("init rejected") /\ UNCHANGED registry
  /\ UNCHANGED <<other, calls, keyState, patches, db, handles, sources, settingsTbl, storeVars, regVars, authVars>>

\* the for loop of loadBuiltin ends (loader.ts 57-58)
LoadDone ==
  /\ lpc = "next"
  /\ cursor > Len(sources)
  /\ lpc' = "idle"
  /\ last' = [op |-> "loaded"]
  /\ UNCHANGED <<other, calls, keyState, patches, db, handles, sources, cursor, cur, registry, settingsTbl, storeVars, regVars, authVars>>

InitLoader ==
  /\ db = NullDb
  /\ handles = 0
  /\ sources \in SeqsUpTo(Manifests, MaxBatch)
  /\ lpc = "idle"
  /\ cursor = 1
  /\ cur = NoCur
  /\ registry = <<>>
  /\ settingsTbl = <<>>
  /\ StoreIdle
  /\ RegistryIdle
  /\ AuthIdle
  /\ other = NoRun
  /\ calls = <<>>
  /\ keyState = NoKey
  /\ patches = <<>>
  /\ last = NoOp

NextLoader == Unlock \/ Lock \/ RegisterManifest \/ ImportSettle \/ InitSettle \/ LoadDone

SpecLoader == InitLoader /\ [][NextLoader]_vars

\* ghost:create-password and ghost:unlock are two ipcMain handlers and neither
\* checks for a load in progress (ipc.ts 21-82): while one handler waits at an
\* await of its loadBuiltin call (the dynamic import, or the module's init),
\* the event loop runs the other.  lpc, cursor and cur are the locals of the
\* handler that is running, `other` those of the handler that waits.
Switch ==
  /\ lpc \in {"idle", "import", "init"}
  /\ <<lpc, cursor, cur>> # <<other.lpc, other.cursor, other.cur>>
  /\ lpc' = other.lpc
  /\ cursor' = other.cursor
  /\ cur' = other.cur
  /\ other' = [lpc |-> lpc, cursor |-> cursor, cur |-> cur]
  /\ last' = [op |-> "switch"]
  /\ UNCHANGED <<calls, keyState, patches, db, handles, sources, registry, settingsTbl, storeVars, regVars, authVars>>

NextOverlap == NextLoader \/ Switch

SpecOverlap == InitLoader /\ [][NextOverlap]_vars

\* ===========================================================================
\* Properties of the loader
\* ===========================================================================
Good(m) == ValidateManifest(m) /\ EntryCode(m.main).imports
           /\ EntryCode(m.main).init \in {"none", "resolves"}
Bad(m) == ~ValidateManifest(m) \/ ~EntryCode(m.main).imports
          \/ EntryCode(m.main).init = "rejects"

\* sources[k] has been through registerManifest at least once
Processed(k) == handles >= 1 /\ (k < cursor \/ handles >= 2)

\* every Context in existence, with the manifest it was built for
Contexts ==
  (IF lpc = "init" THEN {<<cur.manifest, cur.ctx>>} ELSE {})
  \cup UNION { { <<registry[i].manifest, registry[i].functions[f]>> :
                   f \in DOMAIN registry[i].functions } : i \in 1..Len(registry) }

Present(h) == h.k = "handle"

\* C1: of the manifests that share an id only the first that validates and
\* initialises is registered: list() never holds an id twice, a registry entry
\* once set is never replaced or removed, and a registration whose id is
\* already in the registry starts no import and no init.
C1_FirstRegistrationWins ==
  /\ [](\A i, j \in 1..Len(registry) : List[i] = List[j] => i = j)
  /\ [][/\ \A i \in 1..Len(registry) : Len(registry') >= i /\ registry'[i] = registry[i]
        /\ (lpc = "next" /\ cursor <= Len(sources) /\ ValidateManifest(sources[cursor])
              /\ RegistryHas(sources[cursor].id))
             => (registry' = registry /\ lpc' = "next")]_vars

\* a second manifest with a registered id, different from the registered one,
\* was passed to registerManifest and skipped
C1_Witness ==
  /\ last.op = "register" /\ last.outcome = "duplicate"
  /\ RegistryHas(sources[last.src].id)
  /\ RegistryGet(sources[last.src].id).manifest # sources[last.src]

\* C2: a module whose init rejects (or whose manifest or entry is bad) is
\* never in the registry; every other valid module of the batch is registered
\* once the loop has passed it (the entry is its own unless an earlier source
\* of the same id could register); with three manifests of distinct ids whose
\* second init rejects, list() is exactly the first and third id.
C2_IsolationOnInitFailure ==
  /\ \A i \in 1..Len(registry) : ~Bad(registry[i].manifest)
  /\ \A k \in 1..Len(sources) :
       (Processed(k) /\ Good(sources[k])) =>
         /\ RegistryHas(sources[k].id)
         /\ (\A j \in 1..(k-1) : sources[j].id = sources[k].id => Bad(sources[j]))
              => RegistryGet(sources[k].id).manifest = sources[k]
  /\ (/\ Len(sources) = 3 /\ Processed(3)
      /\ Good(sources[1]) /\ Good(sources[3])
      /\ ValidateManifest(sources[2]) /\ EntryCode(sources[2].main).init = "rejects"
      /\ Cardinality({sources[1].id, sources[2].id, sources[3].id}) = 3)
       => List = <<sources[1].id, sources[3].id>>

C2_Witness ==
  /\ Len(sources) = 3 /\ lpc = "idle" /\ handles = 1
  /\ Good(sources[1]) /\ Good(sources[3])
  /\ ValidateManifest(sources[2]) /\ EntryCode(sources[2].main).init = "rejects"
  /\ List = <<sources[1].id, sources[3].id>>

PatchModuleSettingsWriteFirst(id, diff) ==
  IF ~RegistryHas(id) \/ ~RegistryGet(id).manifest.settingsSchema.declared
    THEN [result |-> "no settings schema", tbl |-> settingsTbl]
  ELSE IF db = NullDb
    THEN [result |-> "Database not unlocked", tbl |-> settingsTbl]
  ELSE LET updated == SpreadMerge(GetModuleSettings(id), diff) IN
       IF ~ValidateSettings(RegistryGet(id).manifest.settingsSchema, updated)
         THEN [result |-> "Invalid settings", tbl |-> InsertOrReplace(id, Stringify(updated))]
         ELSE [result |-> "ok", tbl |-> InsertOrReplace(id, Stringify(updated))]

\* ModuleLoader.patchModuleSettings (loader.ts 191-215): how the promise
\* settles and the table afterwards
PatchModuleSettings(id, diff) ==
  IF ~RegistryHas(id) \/ ~RegistryGet(id).manifest.settingsSchema.declared
    THEN [result |-> "no settings schema", tbl |-> settingsTbl]
  ELSE IF db = NullDb
    THEN [result |-> "Database not unlocked", tbl |-> settingsTbl]
  ELSE LET updated == SpreadMerge(GetModuleSettings(id), diff) IN
       IF ~ValidateSettings(RegistryGet(id).manifest.settingsSchema, updated)
         THEN [result |-> "Invalid settings", tbl |-> settingsTbl]
         ELSE [result |-> "ok", tbl |-> InsertOrReplace(id, Stringify(updated))]

\* module code calls ctx.patchSettings(diff) on a Context it holds
CtxPatchSettings ==
  \E c \in Contexts, diff \in Diffs :
    LET id == c[2].moduleId
        r == PatchModuleSettings(id, diff) IN
      /\ settingsTbl' = r.tbl
      /\ last' = [op |-> "ctxPatch", id |-> id, diff |-> diff, prevRow |-> Row(id),
                  result |-> r.result]
      /\ UNCHANGED <<other, calls, keyState, patches, db, handles, sources, lpc, cursor, cur, registry, storeVars, regVars, authVars>>

\* ipcMain.handle('ghost:patch-module-settings') (ipc.ts 251-280)
IpcPatchModuleSettings ==
  \E k \in 1..Len(sources), diff \in Diffs :
    LET id == sources[k].id IN
      /\ IF db = NullDb
           THEN /\ settingsTbl' = settingsTbl
                /\ last' = [op |-> "ipcPatch", id |-> id, diff |-> diff, prevRow |-> Row(id),
                            result |-> "Database not unlocked"]
           ELSE /\ settingsTbl' = InsertOrReplace(id, Stringify(SpreadMerge(GetModuleSettings(id), diff)))
                /\ last' = [op |-> "ipcPatch", id |-> id, diff |-> diff, prevRow |-> Row(id),
                            result |-> "ok"]
      /\ UNCHANGED <<other, calls, keyState, patches, db, handles, sources, lpc, cursor, cur, registry, storeVars, regVars, authVars>>

\* the manifests of the settings runs: a module with the echo settings
\* schema, one without a schema
SettingsBatches ==
  { << Manifest(<<"e">>, Whole(1), "db", "echo.js", EchoSettingsSchema),
       Manifest(<<"a">>, Whole(1), "nodb", "ok.js", NoSchema) >>,
    << Manifest(<<"a">>, Whole(2), "db", "ok.js", EchoSettingsSchema) >> }

InitSettings ==
  /\ db = NullDb
  /\ handles = 0
  /\ sources \in SettingsBatches
  /\ lpc = "idle"
  /\ cursor = 1
  /\ cur = NoCur
  /\ registry = <<>>
  /\ settingsTbl = <<>>
  /\ StoreIdle
  /\ RegistryIdle
  /\ AuthIdle
  /\ other = NoRun
  /\ calls = <<>>
  /\ keyState = NoKey
  /\ patches = <<>>
  /\ last = NoOp

NextSettings == NextLoader \/ CtxPatchSettings

SpecSettings == InitSettings /\ [][NextSettings]_vars

\* the host boundary next to the module's own calls, on the echo manifest
InitHost ==
  /\ db = NullDb
  /\ handles = 0
  /\ sources = << Manifest(<<"e">>, Whole(1), "db", "echo.js", EchoSettingsSchema) >>
  /\ lpc = "idle"
  /\ cursor = 1
  /\ cur = NoCur
  /\ registry = <<>>
  /\ settingsTbl = <<>>
  /\ StoreIdle
  /\ RegistryIdle
  /\ AuthIdle
  /\ other = NoRun
  /\ calls = <<>>
  /\ keyState = NoKey
  /\ patches = <<>>
  /\ last = NoOp

NextHost == NextLoader \/ CtxPatchSettings \/ IpcPatchModuleSettings

SpecHost == InitHost /\ [][NextHost]_vars

\* ===========================================================================
\* Properties of the settings
\* ===========================================================================
\* the last operation was ctx.patchSettings of a registered module with a
\* settingsSchema, with the database unlocked
PatchedWithSchema ==
  /\ last.op = "ctxPatch"
  /\ RegistryHas(last.id)
  /\ RegistryGet(last.id).manifest.settingsSchema.declared
  /\ db # NullDb

\* {...previous getSettings(), ...diff}, read key by key
LastMerged ==
  [k \in Keys |-> IF k \in DOMAIN last.diff THEN last.diff[k]
                  ELSE Read(RowObject(last.prevRow), k)]

\* C4: when the merge of the diff with the current settings validates,
\* patchSettings resolves and getSettings() then returns an object equal to
\* {...previous getSettings(), ...diff}; getSettings() is {} when no row is stored.
C4_SettingsRoundTrip ==
  /\ (PatchedWithSchema
      /\ ValidateSettings(RegistryGet(last.id).manifest.settingsSchema, LastMerged))
       => /\ last.result = "ok"
          /\ ObjEq(GetModuleSettings(last.id), LastMerged)
  /\ \A k \in 1..Len(sources) :
       sources[k].id \notin DOMAIN settingsTbl => GetModuleSettings(sources[k].id) = EmptyObj

\* a valid patch over stored settings changed one key and kept another
C4_Witness ==
  /\ PatchedWithSchema /\ last.result = "ok"
  /\ last.prevRow.present
  /\ \E k \in DOMAIN RowObject(last.prevRow) : k \notin DOMAIN last.diff
  /\ ~ObjEq(GetModuleSettings(last.id), RowObject(last.prevRow))

\* C5: when the merge does not validate, patchSettings rejects with the
\* validation error and the stored row is the one before the call (absent if
\* it was absent), so getSettings() returns what it returned before.
C5_InvalidPatchRejected ==
  (PatchedWithSchema
   /\ ~ValidateSettings(RegistryGet(last.id).manifest.settingsSchema, LastMerged))
    => /\ last.result = "Invalid settings"
       /\ Row(last.id) = last.prevRow
       /\ GetModuleSettings(last.id) = RowObject(last.prevRow)

\* a diff with one valid and one invalid key was rejected over stored settings
C5_Witness ==
  /\ PatchedWithSchema /\ last.result = "Invalid settings"
  /\ last.prevRow.present
  /\ \E k \in DOMAIN last.diff :
       ValidateSettings(RegistryGet(last.id).manifest.settingsSchema, Obj1(k, last.diff[k]))
  /\ Row(last.id) = last.prevRow

\* C6: the settings stored for a registered module are always a valid
\* instance of its settingsSchema.
C6_StoredSettingsValid ==
  \A i \in 1..Len(registry) :
    LET m == registry[i].manifest IN
      (m.settingsSchema.declared /\ m.id \in DOMAIN settingsTbl)
        => ValidateSettings(m.settingsSchema, Parse(settingsTbl[m.id]))

\* ---------------------------------------------------------------------------
\* SQLite tables and indexes.  store.tables maps a table name (a sequence of
\* characters) to its columns, the columns declared NOT NULL without a DEFAULT
\* (required) and its rows; a row maps each column to a value.  Column id is
\* the PRIMARY KEY in every CREATE TABLE of the repository.
\* A statement yields [ok, d]: whether it succeeded and the database after it.
\* ---------------------------------------------------------------------------
SqlNull == [t |-> "null", s |-> "", n |-> 0]

Ok(d) == [ok |-> TRUE, d |-> d]
Err(d) == [ok |-> FALSE, d |-> d]

\* statements of one exec() run in order and stop at the first error (the
\* result so far is bound once, as a value)
Then(r, Stmt(_)) == CHOOSE y \in { IF x.ok THEN Stmt(x.d) ELSE x : x \in {r} } : TRUE

TableExists(d, name) == name \in DOMAIN d.tables
Columns(d, name) == d.tables[name].cols
Rows(d, name) == d.tables[name].rows
Range(seq) == { seq[i] : i \in 1..Len(seq) }
NoDuplicates(seq) == \A i, j \in 1..Len(seq) : seq[i] = seq[j] => i = j

PutTable(d, name, tbl) ==
  [d EXCEPT !.tables = [ n \in DOMAIN d.tables \cup {name} |->
                           IF n = name THEN tbl ELSE d.tables[n] ]]

\* CREATE TABLE IF NOT EXISTS name (cols): nothing at all when the name is taken
CreateTableIfNotExists(d, name, cols, required) ==
  IF TableExists(d, name) THEN Ok(d)
  ELSE IF NoDuplicates(cols)
         THEN Ok(PutTable(d, name, [cols |-> Range(cols), required |-> required, rows |-> {}]))
         ELSE Err(d)

\* INSERT INTO name (DOMAIN row) VALUES (row): columns not named become NULL
Insert(d, name, row) ==
  IF /\ TableExists(d, name)
     /\ DOMAIN row \subseteq Columns(d, name)
     /\ \A c \in d.tables[name].required : c \in DOMAIN row /\ row[c] # SqlNull
     /\ "id" \in DOMAIN row => \A r \in Rows(d, name) : r["id"] # row["id"]
    THEN Ok(PutTable(d, name,
              [d.tables[name] EXCEPT !.rows = @ \cup
                 { [ c \in Columns(d, name) |-> IF c \in DOMAIN row THEN row[c] ELSE SqlNull ] }]))
    ELSE Err(d)

\* CREATE INDEX IF NOT EXISTS idx ON name(col)
CreateIndexIfNotExists(d, idx, name, col) ==
  IF \E i \in d.indexes : i.name = idx THEN Ok(d)
  ELSE IF TableExists(d, name) /\ col \in Columns(d, name)
         THEN Ok([d EXCEPT !.indexes = @ \cup {[name |-> idx, tbl |-> name, col |-> col]}])
         ELSE Err(d)

\* DROP INDEX IF EXISTS idx
DropIndexIfExists(d, idx) ==
  Ok([d EXCEPT !.indexes = { i \in @ : i.name # idx }])

\* ALTER TABLE name ADD COLUMN col ... NOT NULL DEFAULT dflt
AddColumn(d, name, col, dflt) ==
  IF TableExists(d, name) /\ col \notin Columns(d, name)
    THEN Ok(PutTable(d, name,
              [cols |-> Columns(d, name) \cup {col},
               required |-> d.tables[name].required,
               rows |-> { [ c \in Columns(d, name) \cup {col} |->
                              IF c = col THEN dflt ELSE r[c] ] : r \in Rows(d, name) }]))
    ELSE Err(d)

\* UPDATE name SET col = v WHERE col IS NULL OR col = blank
UpdateWhereBlank(d, name, col, blank, v) ==
  IF TableExists(d, name) /\ col \in Columns(d, name)
    THEN Ok(PutTable(d, name,
              [cols |-> Columns(d, name),
               required |-> d.tables[name].required,
               rows |-> { IF r[col] \in {SqlNull, blank} THEN [r EXCEPT ![col] = v] ELSE r
                          : r \in Rows(d, name) }]))
    ELSE Err(d)

\* DROP TABLE name: its indexes go with it
DropTable(d, name) ==
  IF TableExists(d, name)
    THEN Ok([tables |-> [ n \in DOMAIN d.tables \ {name} |-> d.tables[n] ],
             indexes |-> { i \in d.indexes : i.tbl # name }])
    ELSE Err(d)

\* ALTER TABLE from RENAME TO to: the indexes follow the table
RenameTable(d, from, to) ==
  IF TableExists(d, from) /\ ~TableExists(d, to)
    THEN Ok([tables |-> [ n \in (DOMAIN d.tables \ {from}) \cup {to} |->
                            IF n = to THEN d.tables[from] ELSE d.tables[n] ],
             indexes |-> { IF i.tbl = from THEN [i EXCEPT !.tbl = to] ELSE i
                           : i \in d.indexes }])
    ELSE Err(d)

\* ---------------------------------------------------------------------------
\* SyncManager and defineTable (main/sync.ts)
\* ---------------------------------------------------------------------------
Canonical == <<"id", "user_id", "_ps_version", "updated_at", "deleted">>

Underscore == <<"_">>
FullTableName(moduleId, tableName) == moduleId \o Underscore \o tableName

IndexName(full, col) == <<"idx_">> \o full \o Underscore \o <<col>>

\* NOT NULL columns without a DEFAULT of the CREATE TABLE text; a module column
\* is declared as echo declares its own, `<name> TEXT NOT NULL`
RequiredOf(userColumns) == {"user_id", "updated_at"} \cup Range(userColumns)

DefineTableExecNoVersion(moduleId, tableName, userColumns, d) ==
  LET full == FullTableName(moduleId, tableName)
      r0 == IF userColumns = <<>> THEN Err(d)
            ELSE CreateTableIfNotExists(d, full,
                   <<"id", "user_id", "updated_at", "deleted">> \o userColumns,
                   RequiredOf(userColumns))
      r1 == Then(r0, LAMBDA x : CreateIndexIfNotExists(x, IndexName(full, "user_id"), full, "user_id"))
      r2 == Then(r1, LAMBDA x : CreateIndexIfNotExists(x, IndexName(full, "updated_at"), full, "updated_at"))
  IN Then(r2, LAMBDA x : CreateIndexIfNotExists(x, IndexName(full, "deleted"), full, "deleted"))

\* the exec() of defineTable: the CREATE TABLE, then the three indexes.  It is
\* not a transaction, so what ran before an error stays.  An empty userColumns
\* leaves a dangling comma and nothing of the text compiles.
DefineTableExec(moduleId, tableName, userColumns, d) ==
  LET full == FullTableName(moduleId, tableName)
      r0 == IF userColumns = <<>> THEN Err(d)
            ELSE CreateTableIfNotExists(d, full, Canonical \o userColumns,
                                        RequiredOf(userColumns))
      r1 == Then(r0, LAMBDA x : CreateIndexIfNotExists(x, IndexName(full, "user_id"), full, "user_id"))
      r2 == Then(r1, LAMBDA x : CreateIndexIfNotExists(x, IndexName(full, "updated_at"), full, "updated_at"))
  IN Then(r2, LAMBDA x : CreateIndexIfNotExists(x, IndexName(full, "deleted"), full, "deleted"))

\* the text defineTable returns: the SQL it executed, not the table's name
SchemaText(full, userColumns) == [sql |-> TRUE, tbl |-> full, userColumns |-> userColumns]

ModuleIds == {<<"e", "c", "h", "o">>, <<"a">>}
TableNames == {<<"l", "o", "g">>}
UserColumns == {<<"text">>, <<"body", "ts">>, <<"id">>, <<>>}

\* SyncManager.registerTable without registeredTables.add
RegisterTableNoAdd(registered, full, fails) ==
  [ok |-> full \in registered \/ ~fails, registered |-> registered]

\* SyncManager.registerTable: a table already registered returns at once; else
\* the schema is recorded and the name added; `fails` is an exception inside
\* the try block, which is logged and rethrown (the promise rejects)
RegisterTable(registered, full, fails) ==
  IF full \in registered THEN [ok |-> TRUE, registered |-> registered]
  ELSE IF fails THEN [ok |-> FALSE, registered |-> registered]
  ELSE [ok |-> TRUE, registered |-> registered \cup {full}]

DefineTable ==
  \E moduleId \in ModuleIds, tableName \in TableNames, userColumns \in UserColumns :
    \E r \in { DefineTableExec(moduleId, tableName, userColumns, store) }, fails \in BOOLEAN :
    LET full == FullTableName(moduleId, tableName)
        sync == r.ok /\ syncEnabled
        reg  == RegisterTable(syncTables, full, fails)
    IN /\ store' = r.d
       /\ syncTables' = IF sync THEN reg.registered ELSE syncTables
       /\ last' = [op |-> "defineTable", tbl |-> full, userColumns |-> userColumns,
                   before |-> store, threw |-> ~r.ok,
                   syncEnabled |-> syncEnabled,
                   syncLogged |-> sync /\ ~reg.ok,
                   returned |-> IF r.ok THEN SchemaText(full, userColumns)
                                ELSE SchemaText(<<>>, <<>>)]
       /\ UNCHANGED <<other, calls, keyState, patches, db, handles, sources, lpc, cursor, cur, registry, settingsTbl, regVars,
                      clock, syncEnabled, authVars>>

\* SyncManager.init: setInterval, its handle assigned to syncInterval, and
\* syncStatus.enabled = true
SyncInit ==
  /\ Len(timers) < MaxInits
  /\ timers' = Append(timers, "active")
  /\ syncInterval' = Len(timers) + 1
  /\ syncEnabled' = TRUE
  /\ last' = [op |-> "syncInit"]
  /\ UNCHANGED <<other, calls, keyState, patches, db, handles, sources, lpc, cursor, cur, registry, settingsTbl, regVars,
                 store, clock, syncTables, openHandles, authRest>>

\* SyncManager.shutdown
SyncShutdown ==
  /\ syncEnabled' = FALSE
  /\ syncTables' = {}
  /\ timers' = ClearInterval(timers, syncInterval)
  /\ syncInterval' = 0
  /\ last' = [op |-> "syncShutdown"]
  /\ UNCHANGED <<other, calls, keyState, patches, db, handles, sources, lpc, cursor, cur, registry, settingsTbl, regVars,
                 store, clock, openHandles, authRest>>

\* a millisecond passes
Tick ==
  /\ clock < ClockStart + MaxTicks
  /\ clock' = clock + 1
  /\ last' = [op |-> "tick"]
  /\ UNCHANGED <<other, calls, keyState, patches, db, handles, sources, lpc, cursor, cur, registry, settingsTbl, regVars,
                 store, syncEnabled, syncTables, authVars>>

\* ---------------------------------------------------------------------------
\* Forward migration of echo_log (modules/echo/migration.ts)
\* ---------------------------------------------------------------------------
EchoLog == FullTableName(<<"e", "c", "h", "o">>, <<"l", "o", "g">>)
EchoLogNew == EchoLog \o <<"_", "n", "e", "w">>
IdxEchoTs == <<"idx_echo_ts">>

RequiredColumns == <<"user_id", "_ps_version", "updated_at", "deleted">>

ColumnDefault(c) == IF c = "user_id" THEN Str("legacy-user") ELSE Num(0)

Coalesce(v, w) == IF v = SqlNull THEN w ELSE v

\* strftime('%s','now'): seconds, while Date.now() counts milliseconds
UnixSeconds(ms) == ms \div 1000

RECURSIVE AddColumns(_, _)
AddColumns(r, columns) ==
  IF columns = <<>> THEN r
  ELSE AddColumns(Then(r, LAMBDA x : AddColumn(x, EchoLog, Head(columns), ColumnDefault(Head(columns)))),
                  Tail(columns))

BackFill(r, added, now) ==
  LET r1 == IF "user_id" \in Range(added)
              THEN Then(r, LAMBDA x : UpdateWhereBlank(x, EchoLog, "user_id", Str(""), Str("legacy-user")))
              ELSE r
      r2 == IF "_ps_version" \in Range(added)
              THEN Then(r1, LAMBDA x : UpdateWhereBlank(x, EchoLog, "_ps_version", SqlNull, Num(0)))
              ELSE r1
      r3 == IF "updated_at" \in Range(added)
              THEN Then(r2, LAMBDA x : UpdateWhereBlank(x, EchoLog, "updated_at", Num(0), Num(UnixSeconds(now))))
              ELSE r2
  IN IF "deleted" \in Range(added)
       THEN Then(r3, LAMBDA x : UpdateWhereBlank(x, EchoLog, "deleted", SqlNull, Num(0)))
       ELSE r3

NewColumns == <<"id", "user_id", "text", "_ps_version", "updated_at", "deleted">>

\* one row of the INSERT ... SELECT into echo_log_new
CopyRow(r, now) ==
  [ c \in Range(NewColumns) |->
      CASE c = "user_id" -> Coalesce(r["user_id"], Str("legacy-user"))
        [] c = "_ps_version" -> Coalesce(r["_ps_version"], Num(0))
        [] c = "updated_at" -> IF r["updated_at"] \in {SqlNull, Num(0)}
                                 THEN Coalesce(r["ts"], Num(UnixSeconds(now)))
                                 ELSE r["updated_at"]
        [] c = "deleted" -> Coalesce(r["deleted"], Num(0))
        [] OTHER -> r[c] ]

RECURSIVE InsertAll(_, _, _)
InsertAll(r, name, rows) ==
  IF rows = {} \/ ~r.ok THEN r
  ELSE LET row == CHOOSE x \in rows : TRUE
       IN InsertAll(Insert(r.d, name, row), name, rows \ {row})

\* a rebuild without the INSERT ... SELECT
CopyRowsNone(d, now) == Ok(d)

\* INSERT INTO echo_log_new (...) SELECT ... FROM echo_log
CopyRows(d, now) ==
  IF /\ TableExists(d, EchoLog) /\ TableExists(d, EchoLogNew)
     /\ Range(NewColumns) \cup {"ts"} \subseteq Columns(d, EchoLog)
    THEN InsertAll(Ok(d), EchoLogNew, { CopyRow(r, now) : r \in Rows(d, EchoLog) })
    ELSE Err(d)

\* phase 2: the rebuild that removes the legacy ts column
Rebuild(r, now) ==
  LET r1 == Then(r, LAMBDA x : DropIndexIfExists(x, IdxEchoTs))
      r2 == Then(r1, LAMBDA x : CreateTableIfNotExists(x, EchoLogNew, NewColumns,
                                                       {"user_id", "text", "updated_at"}))
      r3 == Then(r2, LAMBDA x : CopyRows(x, now))
      r4 == Then(r3, LAMBDA x : DropTable(x, EchoLog))
      r5 == Then(r4, LAMBDA x : RenameTable(x, EchoLogNew, EchoLog))
      r6 == Then(r5, LAMBDA x : CreateIndexIfNotExists(x, IndexName(EchoLog, "user_id"), EchoLog, "user_id"))
      r7 == Then(r6, LAMBDA x : CreateIndexIfNotExists(x, IndexName(EchoLog, "updated_at"), EchoLog, "updated_at"))
  IN Then(r7, LAMBDA x : CreateIndexIfNotExists(x, IndexName(EchoLog, "deleted"), EchoLog, "deleted"))

MissingColumnsAll(existing) == RequiredColumns

\* the columns the ALTER loop adds: the required ones the table lacks
MissingColumns(existing) == SelectSeq(RequiredColumns, LAMBDA c : c \notin existing)

\* the DDL statements of a run in which none fails
DdlOf(missing, hasLegacyTs) ==
  [ i \in 1..Len(missing) |-> "ALTER TABLE ADD COLUMN " \o missing[i] ]
  \o (IF hasLegacyTs
        THEN <<"DROP INDEX", "CREATE TABLE", "DROP TABLE", "ALTER TABLE RENAME",
               "CREATE INDEX user_id", "CREATE INDEX updated_at", "CREATE INDEX deleted">>
        ELSE <<>>)

NoResult == [migrated |-> FALSE, details |-> <<>>]

RollbackKeepsPartial(before, r) == r.d

\* db.transaction(...): when a statement throws, the transaction is rolled
\* back and the database is the one before the call
Rollback(before, r) == before

\* ensureEchoLogSchema(db) at time now: whether it threw, what it returned, the
\* DDL it ran and the database it leaves.  The transaction rolls every
\* statement back when one fails.
EnsureEchoLogSchema(d, now) ==
  IF ~TableExists(d, EchoLog)
    THEN [threw |-> FALSE, result |-> NoResult, ddl |-> <<>>, d |-> d]
    ELSE LET existingColumns == Columns(d, EchoLog)
             added == MissingColumns(existingColumns)
             hasLegacyTs == "ts" \in existingColumns
             r1 == AddColumns(Ok(d), added)
             r2 == BackFill(r1, added, now)
             r3 == IF hasLegacyTs THEN Rebuild(r2, now) ELSE r2
         IN IF r3.ok
              THEN [threw |-> FALSE,
                    result |-> [migrated |-> (Len(added) > 0 \/ hasLegacyTs), details |-> added],
                    ddl |-> DdlOf(added, hasLegacyTs), d |-> r3.d]
              ELSE [threw |-> TRUE, result |-> NoResult, ddl |-> <<>>, d |-> Rollback(d, r3)]

Migrate ==
  \E m \in { EnsureEchoLogSchema(store, clock) } :
     /\ store' = m.d
     /\ last' = [op |-> "migrate", threw |-> m.threw, result |-> m.result, ddl |-> m.ddl,
                 before |-> store,
                 second |-> (last.op = "migrate" /\ ~last.threw)]
     /\ UNCHANGED <<other, calls, keyState, patches, db, handles, sources, lpc, cursor, cur, registry, settingsTbl, regVars,
                    clock, syncEnabled, syncTables, authVars>>

\* ---------------------------------------------------------------------------
\* The schema registrar and the migration on the databases earlier versions
\* of echo left behind
\* ---------------------------------------------------------------------------
LegacyRowA ==
  [id |-> Str("1"), text |-> Str("x"), ts |-> Num(4000), user_id |-> Str("u"),
   _ps_version |-> Num(1), updated_at |-> Num(4100), deleted |-> Num(0)]
LegacyRowB ==
  [id |-> Str("2"), text |-> Str("y"), ts |-> Num(4001), user_id |-> Str(""),
   _ps_version |-> Num(0), updated_at |-> Num(0), deleted |-> Num(1)]

Restrict(row, cols) == [ c \in cols |-> row[c] ]

\* shapes of echo_log: the legacy one (modules/echo of the first version), the
\* partially canonical ones, the canonical one, and one without text
Shapes ==
  { [cols |-> {"id", "text", "ts"}, required |-> {"text", "ts"}],
    [cols |-> {"id", "text", "ts", "user_id", "updated_at"},
     required |-> {"text", "ts", "user_id", "updated_at"}],
    [cols |-> {"id", "text", "user_id", "updated_at", "deleted"},
     required |-> {"text", "user_id", "updated_at"}],
    [cols |-> {"id", "text"}, required |-> {"text"}],
    [cols |-> {"id", "ts"}, required |-> {"ts"}],
    [cols |-> Range(Canonical) \cup {"text"}, required |-> {"text", "user_id", "updated_at"}] }

LegacyStore(shape, rows) ==
  [tables |-> (EchoLog :> [cols |-> shape.cols, required |-> shape.required,
                           rows |-> { Restrict(r, shape.cols) : r \in rows }]),
   indexes |-> IF "ts" \in shape.cols
                 THEN {[name |-> IdxEchoTs, tbl |-> EchoLog, col |-> "ts"]}
                 ELSE {}]

InitialStores ==
  {EmptyStore} \cup
  { LegacyStore(shape, rows) : shape \in Shapes, rows \in SUBSET {LegacyRowA, LegacyRowB} }

InitStore ==
  /\ db = Handle(1)
  /\ handles = 1
  /\ sources = <<>>
  /\ lpc = "idle"
  /\ cursor = 1
  /\ cur = NoCur
  /\ registry = <<>>
  /\ settingsTbl = <<>>
  /\ store \in InitialStores
  /\ clock = ClockStart
  /\ syncEnabled = FALSE
  /\ syncTables = {}
  /\ RegistryIdle
  /\ AuthIdle
  /\ other = NoRun
  /\ calls = <<>>
  /\ keyState = NoKey
  /\ patches = <<>>
  /\ last = NoOp

\* the ai-chat module (modules/ai-chat): its manifest id and the table its
\* init creates
AiChat == <<"a", "i", "-", "c", "h", "a", "t">>
AiChatLog == <<"a", "i", "_", "c", "h", "a", "t", "_", "l", "o", "g">>

\* init of ai-chat: ctx.db.exec of its own CREATE TABLE and two CREATE INDEX
\* statements, straight on the handle the Context carries
AiChatInit ==
  \E r0 \in { CreateTableIfNotExists(store, AiChatLog,
                <<"id", "user_id", "role", "content", "tool_calls", "_ps_version",
                  "updated_at", "deleted">>,
                {"user_id", "role", "content", "_ps_version", "updated_at", "deleted"}) } :
    \E r1 \in { Then(r0, LAMBDA x : CreateIndexIfNotExists(x, IndexName(AiChatLog, "user_id"),
                                                         AiChatLog, "user_id")) } :
      \E r2 \in { Then(r1, LAMBDA x : CreateIndexIfNotExists(x, IndexName(AiChatLog, "updated_at"),
                                                           AiChatLog, "updated_at")) } :
        /\ store' = r2.d
        /\ last' = [op |-> "ctxDbExec", moduleId |-> AiChat, tbl |-> AiChatLog,
                    before |-> store, threw |-> ~r2.ok]
        /\ UNCHANGED <<other, calls, keyState, patches, db, handles, sources, lpc, cursor, cur, registry, settingsTbl,
                       regVars, clock, syncEnabled, syncTables, authVars>>

NextStore == DefineTable \/ Migrate \/ SyncInit \/ SyncShutdown \/ AiChatInit

SpecStore == InitStore /\ [][NextStore]_vars

\* ===========================================================================
\* Properties of the schema registrar and of the migration
\* ===========================================================================
FiveColumns == {"id", "user_id", "_ps_version", "updated_at", "deleted"}

\* the last operation was a defineTable that returned
DefineTableReturned == last.op = "defineTable" /\ ~last.threw

HasFiveColumns(d, name) == TableExists(d, name) /\ FiveColumns \subseteq Columns(d, name)

\* C7 (as claimed): whatever the database held before (the table absent, or a
\* table of that name already there), after defineTable returns the table
\* `${moduleId}_${tableName}` has the five canonical columns.
C7_CanonicalColumnsEveryPriorState ==
  DefineTableReturned => HasFiveColumns(store, last.tbl)

\* C7 (amended): after defineTable returns, the table has the five canonical
\* columns when it was absent before the call (it is then created with the five
\* and the module's columns) or when it already had the five; a table of that
\* name that is already there is left with the columns it had.
C7_CanonicalColumns ==
  DefineTableReturned =>
    /\ TableExists(store, last.tbl)
    /\ ~TableExists(last.before, last.tbl) =>
         Columns(store, last.tbl) = FiveColumns \cup Range(last.userColumns)
    /\ TableExists(last.before, last.tbl) =>
         Columns(store, last.tbl) = Columns(last.before, last.tbl)
    /\ (~TableExists(last.before, last.tbl) \/ HasFiveColumns(last.before, last.tbl)) =>
         HasFiveColumns(store, last.tbl)

\* defineTable has returned after creating a table with two module columns
C7_Witness ==
  /\ DefineTableReturned
  /\ ~TableExists(last.before, last.tbl)
  /\ last.userColumns = <<"body", "ts">>
  /\ HasFiveColumns(store, last.tbl)

\* the last operation was a run of ensureEchoLogSchema that came right after a
\* run that returned
SecondRun == last.op = "migrate" /\ last.second

\* C8: for every initial shape of echo_log, a run of ensureEchoLogSchema that
\* follows a successful run returns, executes no DDL, reports migrated = false
\* with empty details, and leaves tables, rows and indexes as the first run
\* left them.
C8_MigrationIdempotent ==
  SecondRun =>
    /\ ~last.threw
    /\ last.ddl = <<>>
    /\ last.result = [migrated |-> FALSE, details |-> <<>>]
    /\ store = last.before

\* a second run on a table that the first run rebuilt from the legacy shape
\* with its rows
C8_Witness ==
  /\ SecondRun
  /\ TableExists(store, EchoLog)
  /\ Columns(store, EchoLog) = Range(NewColumns)
  /\ Cardinality(Rows(store, EchoLog)) = 2
  /\ \E i \in store.indexes : i.tbl = EchoLog

\* ---------------------------------------------------------------------------
\* Outcomes of a call: a value returned, or an Error thrown with a message
\* ---------------------------------------------------------------------------
Returned(v) == [thrown |-> FALSE, message |-> "", v |-> v]
Thrown(message) == [thrown |-> TRUE, message |-> message, v |-> Undef]

\* the object { error: message }
ErrorObject(message) == [t |-> "object", s |-> message, n |-> 0]
\* an array of { text, updated_at } objects
Array(items) == [t |-> "array", items |-> items]

\* ---------------------------------------------------------------------------
\* The echo module (modules/echo/index.ts)
\* ---------------------------------------------------------------------------
Echo == <<"e", "c", "h", "o">>
ReplyName == <<"r", "e", "p", "l", "y">>
GetLogName == <<"g", "e", "t", "-", "l", "o", "g">>
LogLimit == 50

EchoInitDefineFirst(d, now) ==
  LET r == DefineTableExec(Echo, <<"l", "o", "g">>, <<"text">>, d)
      m == EnsureEchoLogSchema(r.d, now)
  IN IF ~r.ok THEN [threw |-> TRUE, d |-> r.d, defined |-> FALSE, flag |-> FALSE,
                    failed |-> "defineTable"]
     ELSE IF m.threw THEN [threw |-> TRUE, d |-> m.d, defined |-> TRUE, flag |-> FALSE,
                           failed |-> "migration"]
     ELSE [threw |-> FALSE, d |-> m.d, defined |-> TRUE,
           flag |-> "ts" \in Columns(m.d, EchoLog), failed |-> "none"]

\* init(ctx): the migration, defineTable('echo', 'log', 'text TEXT NOT NULL'),
\* then the PRAGMA that sets hasLegacyTsColumn
EchoInit(d, now) ==
  LET m == EnsureEchoLogSchema(d, now)
      r == DefineTableExec(Echo, <<"l", "o", "g">>, <<"text">>, m.d)
  IN IF m.threw THEN [threw |-> TRUE, d |-> m.d, defined |-> FALSE, flag |-> FALSE,
                      failed |-> "migration"]
     ELSE IF ~r.ok THEN [threw |-> TRUE, d |-> r.d, defined |-> FALSE, flag |-> FALSE,
                         failed |-> "defineTable"]
     ELSE [threw |-> FALSE, d |-> r.d, defined |-> TRUE,
           flag |-> "ts" \in Columns(r.d, EchoLog), failed |-> "none"]

\* the row reply inserts: its id is the clock reading, as text
ReplyRow(text, now, d) ==
  [id |-> Str(ToString(now)), user_id |-> Str("default-user"), text |-> Str(text),
   _ps_version |-> Num(0), updated_at |-> Num(now), deleted |-> Num(0)]

\* functions.reply({text}, ctx)
Reply(text, now, d) ==
  LET base == ReplyRow(text, now, d)
      row == IF hasLegacyTsColumn
               THEN [ c \in DOMAIN base \cup {"ts"} |-> IF c = "ts" THEN Num(now) ELSE base[c] ]
               ELSE base
      r == Insert(d, EchoLog, row)
  IN IF r.ok THEN [out |-> Returned(Str(text)), d |-> r.d]
     ELSE [out |-> Thrown("SqliteError"), d |-> d]

SortKey(row) == IF row["updated_at"] = SqlNull THEN -1 ELSE row["updated_at"].n

\* the orders ORDER BY updated_at DESC allows: rows with equal keys come in
\* any order
RECURSIVE SortedDesc(_)
SortedDesc(rows) ==
  IF rows = {} THEN { <<>> }
  ELSE UNION { { <<r>> \o rest : rest \in SortedDesc(rows \ {r}) }
               : r \in { x \in rows : \A y \in rows : SortKey(x) >= SortKey(y) } }

FirstN(seq, n) == SubSeq(seq, 1, IF Len(seq) < n THEN Len(seq) ELSE n)

\* functions['get-log']: the results SELECT text, updated_at FROM echo_log
\* WHERE deleted = 0 ORDER BY updated_at DESC LIMIT 50 may produce
GetLog(d) ==
  IF TableExists(d, EchoLog) /\ {"text", "updated_at", "deleted"} \subseteq Columns(d, EchoLog)
    THEN { Returned(Array([ i \in 1..Len(FirstN(order, LogLimit)) |->
                              [text |-> order[i]["text"], updated_at |-> order[i]["updated_at"]] ]))
           : order \in SortedDesc({ r \in Rows(d, EchoLog) : r["deleted"] = Num(0) }) }
    ELSE { Thrown("SqliteError") }

\* ---------------------------------------------------------------------------
\* The compile-time ModuleRegistry (main/modules.ts)
\* ---------------------------------------------------------------------------
Dot == <<".">>
ToolName(moduleId, fn) == moduleId \o Dot \o fn

\* a module that forwards to another plug-in, as docs/ describes:
\* `await ctx.invoke('notes', 'list', args)`
Relay == <<"r", "e", "l", "a", "y">>
Notes == <<"n", "o", "t", "e", "s">>
ListName == <<"l", "i", "s", "t">>
RelayFn == <<"f", "o", "r", "w", "a", "r", "d">>

SetTool(t, moduleId, fn, handle) ==
  [ k \in DOMAIN t \cup {ToolName(moduleId, fn)} |->
      IF k = ToolName(moduleId, fn) THEN [moduleId |-> moduleId, fn |-> fn, db |-> handle]
      ELSE t[k] ]

SetModule(ms, id) == IF \E i \in 1..Len(ms) : ms[i] = id THEN ms ELSE Append(ms, id)

\* loadModules(db): registerModule for each discovered module, in discovery
\* order (echo, relay).  A rejecting init rejects loadModules: the module's
\* functions are not indexed and the modules after it are not reached.
LoadModules ==
  /\ db # NullDb
  /\ \E i \in { EchoInit(store, clock) } :
        /\ store' = i.d
        /\ syncTables' = IF i.defined /\ syncEnabled
                         THEN RegisterTable(syncTables, EchoLog, FALSE).registered
                         ELSE syncTables
        /\ hasLegacyTsColumn' = IF i.threw THEN hasLegacyTsColumn ELSE i.flag
        /\ tools' = IF i.threw THEN tools
                    ELSE SetTool(SetTool(SetTool(tools, Echo, ReplyName, db),
                                         Echo, GetLogName, db),
                                 Relay, RelayFn, db)
        /\ modules' = IF i.threw THEN modules ELSE SetModule(SetModule(modules, Echo), Relay)
        /\ last' = [op |-> "loadModules", threw |-> i.threw, failed |-> i.failed,
                    before |-> store]
  /\ UNCHANGED <<other, calls, keyState, patches, db, handles, sources, lpc, cursor, cur, registry, settingsTbl,
                 clock, syncEnabled, replied, authVars>>

\* ModuleRegistry.invoke(moduleId, fn, args): the outcomes the call may have,
\* each with the database it leaves.  forward awaits ctx.invoke('notes',
\* 'list', args), so what that call throws is what forward throws.
Invoke(moduleId, fn, text) ==
  LET toolName == ToolName(moduleId, fn)
  IN IF toolName \notin DOMAIN tools
       THEN { [out |-> Thrown("FUNCTION_NOT_FOUND"), d |-> store] }
     ELSE IF moduleId = Echo /\ fn = ReplyName
       THEN { Reply(text, clock, store) }
     ELSE IF moduleId = Echo /\ fn = GetLogName
       THEN { [out |-> o, d |-> store] : o \in GetLog(store) }
     ELSE IF ToolName(Notes, ListName) \notin DOMAIN tools
       THEN { [out |-> Thrown("FUNCTION_NOT_FOUND"), d |-> store] }
     ELSE { [out |-> Returned(Undef), d |-> store] }

\* ipcMain.handle('ghost:invoke-module'): the raw result, or { error: message }
IpcInvokeModule(out) == IF out.thrown THEN ErrorObject(out.message) ELSE out.v

\* window.ghost.invokeModule (preload): throws when the reply is an object
\* with an `error` member
PreloadInvokeModule(res) ==
  IF res.t = "object" THEN Thrown(res.s) ELSE Returned(res)

Nope == <<"n", "o", "p", "e">>
Texts == {"hi", "yo"}

Calls ==
  { [moduleId |-> Echo, fn |-> ReplyName, text |-> t] : t \in Texts }
  \cup { [moduleId |-> Echo, fn |-> GetLogName, text |-> ""],
         [moduleId |-> Nope, fn |-> <<"x">>, text |-> ""],
         [moduleId |-> Relay, fn |-> RelayFn, text |-> ""] }

\* what one call writes to the log: the handler's debug line with the key on
\* entry, and its error line when invoke rejected, which carries the error but
\* not the key; ModuleRegistry.invoke itself has no logger call
InvokeModuleLog(moduleId, fn, out) ==
  <<[level |-> "debug", line |-> "[IPC] invoke-module %s.%s",
     key |-> ToolName(moduleId, fn), error |-> ""]>>
  \o (IF out.thrown
        THEN <<[level |-> "error", line |-> "[IPC] invoke-module error:",
                key |-> <<>>, error |-> out.message]>>
        ELSE <<>>)

\* one call of window.ghost.invokeModule, from the renderer down to the
\* module function and back
InvokeModule ==
  \E c \in Calls :
    \E o \in Invoke(c.moduleId, c.fn, c.text) :
      LET registered == ToolName(c.moduleId, c.fn) \in DOMAIN tools
          ipc == IpcInvokeModule(o.out)
      IN /\ store' = o.d
         /\ replied' = IF registered /\ c.moduleId = Echo /\ c.fn = ReplyName /\ ~o.out.thrown
                         THEN replied \cup {c.text} ELSE replied
         /\ last' = [op |-> "invokeModule", moduleId |-> c.moduleId, fn |-> c.fn,
                     text |-> c.text, registered |-> registered,
                     direct |-> o.out, ipc |-> ipc, api |-> PreloadInvokeModule(ipc),
                     logged |-> InvokeModuleLog(c.moduleId, c.fn, o.out),
                     replied |-> replied]
         /\ UNCHANGED <<other, calls, keyState, patches, db, handles, sources, lpc, cursor, cur, registry, settingsTbl,
                        clock, syncEnabled, syncTables, modules, tools, hasLegacyTsColumn, authVars>>

InitEcho ==
  /\ db = Handle(1)
  /\ handles = 1
  /\ sources = <<>>
  /\ lpc = "idle"
  /\ cursor = 1
  /\ cur = NoCur
  /\ registry = <<>>
  /\ settingsTbl = <<>>
  /\ store \in InitialStores
  /\ clock = ClockStart
  /\ syncEnabled = FALSE
  /\ syncTables = {}
  /\ RegistryIdle
  /\ AuthIdle
  /\ other = NoRun
  /\ calls = <<>>
  /\ keyState = NoKey
  /\ patches = <<>>
  /\ last = NoOp

NextEcho == LoadModules \/ InvokeModule \/ Tick

SpecEcho == InitEcho /\ [][NextEcho]_vars

\* ===========================================================================
\* Properties of invocation
\* ===========================================================================
\* the texts of a get-log result
LogTexts(array) == { array.items[i].text : i \in 1..Len(array.items) }

\* C9: against a registered echo module, invoke('echo', 'reply', {text: t})
\* returns t, and every later invoke('echo', 'get-log', {}) resolves to a log
\* that has an entry with text t.
C9_ReplyVisibleInLog ==
  (last.op = "invokeModule" /\ last.moduleId = Echo /\ last.registered) =>
    /\ last.fn = ReplyName => last.direct = Returned(Str(last.text))
    /\ last.fn = GetLogName =>
         /\ ~last.direct.thrown
         /\ \A t \in last.replied : Str(t) \in LogTexts(last.direct.v)

NotFoundOutcome == ErrorObject("FUNCTION_NOT_FOUND")

\* C10: an invocation through ghost:invoke-module and window.ghost.invokeModule
\* whose key is not in the index yields the FunctionNotFound outcome as a
\* value, never an exception, and no invocation of a registered function
\* yields that outcome, whether the function threw or returned.
C10_NotFoundIsADistinctValue ==
  last.op = "invokeModule" =>
    /\ ~last.registered => (last.ipc = NotFoundOutcome /\ last.api = Returned(NotFoundOutcome))
    /\ last.registered => (last.ipc # NotFoundOutcome /\ last.api # Thrown("FUNCTION_NOT_FOUND"))

\* ===========================================================================
\* Further properties of the migration and of the schema registrar
\* ===========================================================================
CanonicalIndexes(name) ==
  { [name |-> IndexName(name, c), tbl |-> name, col |-> c] : c \in {"user_id", "updated_at", "deleted"} }

RowIds(d, name) == { r["id"] : r \in Rows(d, name) }

\* C11: the migration of echo_log is atomic.  When a statement of
\* ensureEchoLogSchema fails, tables, rows and indexes are exactly those
\* before the call and no echo_log_new remains; otherwise every step has
\* landed: the required columns are there, ts is gone, the shadow table has
\* been renamed into place with every row id, and a rebuilt table has its
\* three indexes.
C11_MigrationAtomic ==
  last.op = "migrate" =>
    /\ ~TableExists(store, EchoLogNew)
    /\ last.threw => store = last.before
    /\ (~last.threw /\ TableExists(last.before, EchoLog)) =>
         /\ TableExists(store, EchoLog)
         /\ Range(RequiredColumns) \subseteq Columns(store, EchoLog)
         /\ "ts" \notin Columns(store, EchoLog)
         /\ RowIds(store, EchoLog) = RowIds(last.before, EchoLog)
         /\ "ts" \in Columns(last.before, EchoLog) =>
              /\ Columns(store, EchoLog) = Range(NewColumns)
              /\ CanonicalIndexes(EchoLog) \subseteq store.indexes
              /\ \A i \in store.indexes : i.name # IdxEchoTs

\* a run has thrown at the copy, after the ALTERs, the back-fill, the DROP
\* INDEX and the CREATE TABLE had run, on a table that had rows and an index
C11_Witness ==
  /\ last.op = "migrate"
  /\ last.threw
  /\ Rows(last.before, EchoLog) # {}
  /\ last.before.indexes # {}
  /\ MissingColumns(Columns(last.before, EchoLog)) # <<>>

\* C12: in echo's init, for every initial shape of echo_log, the migration
\* has completed before defineTable creates its indexes: index creation never
\* fails, and when init returns the three indexes exist on columns user_id,
\* updated_at and deleted of echo_log.
C12_MigrationBeforeIndexes ==
  last.op = "loadModules" =>
    /\ last.failed # "defineTable"
    /\ last.failed = "none" =>
         /\ {"user_id", "updated_at", "deleted"} \subseteq Columns(store, EchoLog)
         /\ CanonicalIndexes(EchoLog) \subseteq store.indexes

\* init has returned on a database whose echo_log had none of the three
\* indexed columns
C12_Witness ==
  /\ last.op = "loadModules"
  /\ last.failed = "none"
  /\ TableExists(last.before, EchoLog)
  /\ Columns(last.before, EchoLog) \cap {"user_id", "updated_at", "deleted"} = {}
  /\ Rows(last.before, EchoLog) # {}

\* ===========================================================================
\* Further properties of the loader
\* ===========================================================================
\* the manifest breaks a rule of the manifest schema
StructurallyInvalid(m) ==
  \/ ~IdPattern(m.id)
  \/ m.version.whole < 1
  \/ m.title = ""
  \/ m.main = ""

\* C13: a manifest that fails structural validation reaches no later stage.
\* No import and no init is ever in flight for it and no Context is built for
\* it, no registry entry (hence no function) is built from it, list() does
\* not hold its id (no valid manifest of the batch shares it), the loop moves
\* on to the next source right after rejecting it, and every good manifest
\* behind it is registered once the loop has passed it.
C13_InvalidManifestStopsEarly ==
  /\ lpc \in {"import", "init"} => ~StructurallyInvalid(cur.manifest)
  /\ \A i \in 1..Len(registry) : ~StructurallyInvalid(registry[i].manifest)
  /\ \A x \in Contexts : ~StructurallyInvalid(x[1])
  /\ \A k \in 1..Len(sources) :
       StructurallyInvalid(sources[k]) =>
         /\ sources[k].id \notin Range(List)
         /\ (last.op = "register" /\ last.src = k) =>
              (last.outcome = "INVALID_MANIFEST" /\ lpc = "next" /\ cursor = k + 1)
         /\ \A j \in (k+1)..Len(sources) :
              (Processed(j) /\ Good(sources[j])) => RegistryHas(sources[j].id)

\* a load has ended in which an invalid manifest came first and a good one
\* behind it was registered
C13_Witness ==
  /\ lpc = "idle" /\ handles = 1
  /\ Len(sources) >= 2
  /\ StructurallyInvalid(sources[1])
  /\ Good(sources[2])
  /\ List = <<sources[2].id>>

\* ---------------------------------------------------------------------------
\* Registration in the compile-time ModuleRegistry (main/modules.ts), module
\* by module.  Here sources holds the AssistantModule objects the glob yields.
\* ---------------------------------------------------------------------------
\* schema: "none" | "ok" | "fails" (db.exec throws); init: "none" |
\* "resolves" | "rejects"; initTools: the tools init registers through
\* ctx.registerTool before it settles; functions: module.functions
AssistantModule(id, schema, init, initTools, functions) ==
  [id |-> id, schema |-> schema, init |-> init, initTools |-> initTools,
   functions |-> functions]

FnF == <<"f">>
FnG == <<"g">>

AssistantModules ==
  { AssistantModule(<<"a">>, "ok", "none", {}, {FnF}),
    AssistantModule(<<"b">>, "none", "rejects", {FnG}, {FnF}),
    AssistantModule(<<"c">>, "fails", "none", {}, {FnF}),
    AssistantModule(<<"e">>, "none", "resolves", {FnG}, {FnF}),
    AssistantModule(<<"d">>, "none", "none", {}, {<<"e", ".", "f">>}),
    AssistantModule(<<"d", ".", "e">>, "none", "none", {}, {FnF}) }

\* Object.values(modules): each discovered file once
ModuleBatches ==
  { s \in SeqsUpTo(AssistantModules, MaxBatch) :
      \A i, j \in 1..Len(s) : s[i] = s[j] => i = j }

RECURSIVE RegisterTools(_, _, _, _)
RegisterTools(t, moduleId, names, handle) ==
  IF names = {} THEN t
  ELSE LET n == CHOOSE x \in names : TRUE
       IN RegisterTools(SetTool(t, moduleId, n, handle), moduleId, names \ {n}, handle)

\* the module is ready: its functions are registered and it is listed
ModuleReady(m) ==
  /\ tools' = RegisterTools(tools, m.id, m.functions, db)
  /\ modules' = SetModule(modules, m.id)
  /\ cursor' = cursor + 1
  /\ lpc' = "next"
  /\ last' = [op |-> "registerModule", src |-> cursor, outcome |-> "registered"]

\* registerModule threw: nothing in loadModules catches it, the for loop is
\* abandoned and loadModules rejects
LoadRejected(outcome) ==
  /\ lpc' = "idle"
  /\ cursor' = cursor
  /\ last' = [op |-> "registerModule", src |-> cursor, outcome |-> outcome]

\* registerModule up to `await module.init(context)`: the schema, the context
\* and the part of init that runs before its first await
RegisterModule ==
  /\ lpc = "next"
  /\ cursor <= Len(sources)
  /\ LET m == sources[cursor] IN
       IF m.schema = "fails"
         THEN LoadRejected("schema failed") /\ UNCHANGED <<other, calls, keyState, patches, tools, modules>>
       ELSE IF m.init = "none"
         THEN ModuleReady(m)
       ELSE /\ tools' = RegisterTools(tools, m.id, m.initTools, db)
            /\ lpc' = "init"
            /\ last' = [op |-> "moduleInit", src |-> cursor]
            /\ UNCHANGED <<other, calls, keyState, patches, cursor, modules>>
  /\ UNCHANGED <<other, calls, keyState, patches, db, handles, sources, cur, registry, settingsTbl, storeVars,
                 hasLegacyTsColumn, replied, authVars>>

\* `await module.init(context)` settles
ModuleInitSettle ==
  /\ lpc = "init"
  /\ LET m == sources[cursor] IN
       IF m.init = "resolves"
         THEN ModuleReady(m)
         ELSE LoadRejected("init rejected") /\ UNCHANGED <<other, calls, keyState, patches, tools, modules>>
  /\ UNCHANGED <<other, calls, keyState, patches, db, handles, sources, cur, registry, settingsTbl, storeVars,
                 hasLegacyTsColumn, replied, authVars>>

\* the for loop of loadModules ends
LoadModulesDone ==
  /\ lpc = "next"
  /\ cursor > Len(sources)
  /\ lpc' = "idle"
  /\ last' = [op |-> "modulesLoaded"]
  /\ UNCHANGED <<other, calls, keyState, patches, db, handles, sources, cursor, cur, registry, settingsTbl, storeVars, regVars, authVars>>

InitRegistry ==
  /\ db = NullDb
  /\ handles = 0
  /\ sources \in ModuleBatches
  /\ lpc = "idle"
  /\ cursor = 1
  /\ cur = NoCur
  /\ registry = <<>>
  /\ settingsTbl = <<>>
  /\ StoreIdle
  /\ RegistryIdle
  /\ AuthIdle
  /\ other = NoRun
  /\ calls = <<>>
  /\ keyState = NoKey
  /\ patches = <<>>
  /\ last = NoOp

NextRegistry == Unlock \/ RegisterModule \/ ModuleInitSettle \/ LoadModulesDone

SpecRegistry == InitRegistry /\ [][NextRegistry]_vars

\* ===========================================================================
\* Properties of the compile-time registry
\* ===========================================================================
\* ids listModules() returns
ListModules == Range(modules)

\* the keys of the tools Map that belong to module id
ToolKeysOf(id) == { k \in DOMAIN tools : tools[k].moduleId = id }

\* C14: when a module's init hook rejects, the module is excluded entirely:
\* after the rejection it is not in listModules() and no key
\* `${moduleId}.<name>` is in the tools Map, including the tools it registered
\* through ctx.registerTool during init.
C14_RejectedModuleExcluded ==
  (last.op = "registerModule" /\ last.outcome = "init rejected") =>
    /\ sources[last.src].id \notin ListModules
    /\ ToolKeysOf(sources[last.src].id) = {}

\* a module does not fail: its schema applies and its init resolves
Loads(m) == m.schema # "fails" /\ m.init # "rejects"

\* C15: a module whose schema application or init hook fails never prevents
\* the others from loading: once loadModules has settled, every discovered
\* module that does not fail itself is initialised and listed.
C15_OthersStillLoad ==
  (lpc = "idle" /\ handles >= 1) =>
    \A k \in 1..Len(sources) : Loads(sources[k]) => sources[k].id \in ListModules

\* ===========================================================================
\* Further properties of the settings
\* ===========================================================================
\* the last operation was ctx.patchSettings of a registered module that
\* declares no settingsSchema, with the database unlocked
PatchedWithoutSchema ==
  /\ last.op = "ctxPatch"
  /\ RegistryHas(last.id)
  /\ ~RegistryGet(last.id).manifest.settingsSchema.declared
  /\ db # NullDb

\* C17: for a registered module that declares no settingsSchema,
\* patchSettings(diff) succeeds without validation and persists the merged
\* object {...current, ...diff}, which a following getSettings() returns.
C17_SchemalessPatchPersists ==
  PatchedWithoutSchema =>
    /\ last.result = "ok"
    /\ ObjEq(GetModuleSettings(last.id), LastMerged)

\* ===========================================================================
\* Further properties of defineTable
\* ===========================================================================
\* the value a caller would get if defineTable returned the physical name
TableNameValue(full) == [sql |-> FALSE, tbl |-> full, userColumns |-> <<>>]

\* C18: for every moduleId and tableName, defineTable returns the
\* fully-qualified physical table name `${moduleId}_${tableName}`, the name of
\* the table it created.
C18_ReturnsTableName ==
  DefineTableReturned =>
    /\ last.returned = TableNameValue(last.tbl)
    /\ TableExists(store, last.tbl)

\* defineTable was called while the sync manager was enabled, and returned
DefinedWhileSyncEnabled == DefineTableReturned /\ last.syncEnabled

RegisteredFunctionRejected ==
  /\ last.op = "invokeModule"
  /\ last.registered
  /\ last.direct.thrown

\* C16: when a registered module function rejects with error e, the caller
\* of invoke(moduleId, functionName, args) observes a rejection with e, and
\* the log holds an error line that carries e and the key
\* moduleId.functionName.
C16_RejectionLoggedWithKey ==
  RegisteredFunctionRejected =>
    \E i \in 1..Len(last.logged) :
      /\ last.logged[i].level = "error"
      /\ last.logged[i].error = last.direct.message
      /\ last.logged[i].key = ToolName(last.moduleId, last.fn)

\* ===========================================================================
\* Properties of overlapping loads
\* ===========================================================================
\* C20: module initialisation is strictly sequential: in every reachable
\* state at most one module's init hook is in progress, for any interleaving
\* of the ghost:create-password and ghost:unlock handlers.
C20_OneInitAtATime == ~(lpc = "init" /\ other.lpc = "init")

\* ===========================================================================
\* Properties of the storage handle of a Context
\* ===========================================================================
\* name starts with `${moduleId}_`
InNamespace(name, moduleId) ==
  /\ Len(name) > Len(moduleId)
  /\ SubSeq(name, 1, Len(moduleId) + 1) = moduleId \o Underscore

\* a module's exec on its ctx.db has created a table
CreatedThroughHandle ==
  /\ last.op = "ctxDbExec"
  /\ ~TableExists(last.before, last.tbl)
  /\ TableExists(store, last.tbl)

\* C21: every table a module creates through the storage handle of its
\* Context has a physical name that starts with that module's id and an
\* underscore.
C21_TablesNamespaced ==
  CreatedThroughHandle => InNamespace(last.tbl, last.moduleId)

\* ===========================================================================
\* Properties of the rows of echo_log
\* ===========================================================================
EchoRows(d) == IF TableExists(d, EchoLog) THEN Rows(d, EchoLog) ELSE {}

TextOf(row) == IF "text" \in DOMAIN row THEN row["text"] ELSE SqlNull

\* every row of echo_log in d is in e too, with its id and its text
RowsKept(d, e) ==
  \A r \in EchoRows(d) : \E q \in EchoRows(e) : q["id"] = r["id"] /\ TextOf(q) = TextOf(r)

\* C22: rows are never hard-deleted by the runtime: no step (a reply, a
\* get-log, a load with its forward migration, table rebuild and defineTable)
\* removes a row id from echo_log or changes its text, so every row ever
\* present is still present.
C22_RowsNeverDeleted == [][RowsKept(store, store')]_vars

\* a load has rebuilt a legacy table that held two rows, and both are there
C22_Witness ==
  /\ last.op = "loadModules"
  /\ ~last.threw
  /\ TableExists(last.before, EchoLog)
  /\ "ts" \in Columns(last.before, EchoLog)
  /\ "ts" \notin Columns(store, EchoLog)
  /\ Cardinality(EchoRows(last.before)) = 2
  /\ RowsKept(last.before, store)

\* ensureEchoLogSchema has returned from a table that had the obsolete ts
\* column and no updated_at column
LegacyTsMigrated ==
  /\ last.op = "migrate"
  /\ ~last.threw
  /\ TableExists(last.before, EchoLog)
  /\ "ts" \in Columns(last.before, EchoLog)
  /\ "updated_at" \notin Columns(last.before, EchoLog)

\* C23: when ensureEchoLogSchema migrates a legacy echo_log that has ts and
\* lacks updated_at, every migrated row's updated_at is that row's legacy ts
\* value, not the migration time.
C23_UpdatedAtFromTs ==
  LegacyTsMigrated =>
    \A r \in Rows(last.before, EchoLog) :
      \E q \in EchoRows(store) : q["id"] = r["id"] /\ q["updated_at"] = r["ts"]

\* ===========================================================================
\* Invocations in flight (ModuleRegistry.invoke and ctx.invoke)
\* ===========================================================================
\* Two modules: `a` exposes f, which settles, and h, which awaits something
\* that never settles (a request without a timeout); `b` exposes g and k,
\* which await ctx.invoke('a', 'f', args) and ctx.invoke('a', 'h', args) and
\* return what they get.
MaxCalls == 4

ModA == <<"a">>
ModB == <<"b">>
FnH == <<"h">>
FnK == <<"k">>

\* what the body of a registered function does: kind "settles" | "never" |
\* "forwards" (then target is the key it passes to ctx.invoke)
FunctionBody(key) ==
  CASE key = ToolName(ModA, FnF) -> [kind |-> "settles", target |-> <<>>]
    [] key = ToolName(ModA, FnH) -> [kind |-> "never", target |-> <<>>]
    [] key = ToolName(ModB, FnG) -> [kind |-> "forwards", target |-> ToolName(ModA, FnF)]
    [] key = ToolName(ModB, FnK) -> [kind |-> "forwards", target |-> ToolName(ModA, FnH)]
    [] OTHER -> [kind |-> "settles", target |-> <<>>]

InvokeKeys ==
  { ToolName(ModA, FnF), ToolName(ModA, FnH), ToolName(ModB, FnG), ToolName(ModB, FnK),
    ToolName(ModB, FnF) }

\* call i, or a record that stands for "no such call"
CallAt(i) ==
  IF i \in DOMAIN calls THEN calls[i]
  ELSE [key |-> <<>>, parent |-> 0, state |-> "none", out |-> Returned(Undef)]

\* invoke behind a lock: a call goes on only when every earlier one has settled
AdmittedInTurn(i) == \A j \in 1..(i - 1) : CallAt(j).state = "settled"

\* invoke has no queue and no lock: `return tool(args)` starts the function at
\* once and nothing holds it back, whatever else is pending
Admitted(i) == TRUE

\* invoke(moduleId, fn, args) as called by `parent` (0: the IPC handler): the
\* calls after it.  A missing key throws at once; a forwarding function runs
\* up to its `await ctx.invoke(...)`, which makes the nested call.
RECURSIVE StartCall(_, _, _, _)
StartCall(cs, t, key, parent) ==
  LET i == Len(cs) + 1
      call(state, out) == [key |-> key, parent |-> parent, state |-> state, out |-> out]
  IN IF key \notin DOMAIN t
       THEN Append(cs, call("settled", Thrown("FUNCTION_NOT_FOUND")))
     ELSE IF FunctionBody(key).kind = "forwards"
       THEN StartCall(Append(cs, call("waiting", Returned(Undef))), t,
                      FunctionBody(key).target, i)
     ELSE Append(cs, call("running", Returned(Undef)))

\* loadModules(db) of the registry with the two modules: none has an init
\* hook, so their functions are indexed one module after the other
LoadCallModules ==
  /\ db # NullDb
  /\ tools' = RegisterTools(RegisterTools(tools, ModA, {FnF, FnH}, db), ModB, {FnG, FnK}, db)
  /\ modules' = SetModule(SetModule(modules, ModA), ModB)
  /\ last' = [op |-> "loadModules", threw |-> FALSE, failed |-> "none", before |-> store]
  /\ UNCHANGED <<other, calls, keyState, patches, db, handles, sources, lpc, cursor, cur, registry, settingsTbl,
                 storeVars, hasLegacyTsColumn, replied, authVars>>

\* ipcMain.handle('ghost:invoke-module') calls moduleRegistry.invoke
InvokeStart ==
  \E key \in InvokeKeys :
    /\ Len(calls) + 2 <= MaxCalls
    /\ calls' = StartCall(calls, tools, key, 0)
    /\ last' = [op |-> "invokeStart", call |-> Len(calls) + 1]
    /\ UNCHANGED <<other, keyState, patches, db, handles, sources, lpc, cursor, cur, registry,
                   settingsTbl, storeVars, regVars, authVars>>

\* the promise of a running function settles
SettleCall(i) ==
  /\ CallAt(i).state = "running"
  /\ FunctionBody(CallAt(i).key).kind = "settles"
  /\ Admitted(i)
  /\ calls' = [calls EXCEPT ![i].state = "settled", ![i].out = Returned(Str("done"))]
  /\ last' = [op |-> "settle", call |-> i]
  /\ UNCHANGED <<other, keyState, patches, db, handles, sources, lpc, cursor, cur, registry,
                 settingsTbl, storeVars, regVars, authVars>>

\* `await ctx.invoke(...)` of call i: the nested call (the next one) has
\* settled, and the function returns or rethrows what it gave
ResumeCall(i) ==
  /\ CallAt(i).state = "waiting"
  /\ CallAt(i + 1).state = "settled"
  /\ Admitted(i)
  /\ calls' = [calls EXCEPT ![i].state = "settled", ![i].out = CallAt(i + 1).out]
  /\ last' = [op |-> "resume", call |-> i]
  /\ UNCHANGED <<other, keyState, patches, db, handles, sources, lpc, cursor, cur, registry,
                 settingsTbl, storeVars, regVars, authVars>>

Settle == \E i \in 1..MaxCalls : SettleCall(i)
Resume == \E i \in 1..MaxCalls : ResumeCall(i)

NextCalls == LoadCallModules \/ InvokeStart \/ Settle \/ Resume

\* the registry as constructed, the database unlocked and empty
InitCalls == InitEcho /\ store = EmptyStore

SpecCalls == InitCalls /\ [][NextCalls]_vars

\* the event loop runs every continuation that is ready
SpecCallsFair ==
  /\ SpecCalls
  /\ \A i \in 1..MaxCalls : WF_vars(SettleCall(i)) /\ WF_vars(ResumeCall(i))

\* ===========================================================================
\* Properties of invocations in flight
\* ===========================================================================
\* call i can settle: it runs a function that settles, or awaits one that does
CanSettle(i) ==
  \/ CallAt(i).state = "settled"
  \/ CallAt(i).state = "running" /\ FunctionBody(CallAt(i).key).kind = "settles"
  \/ CallAt(i).state = "waiting" /\ CallAt(i + 1).state \in {"running", "settled"}
       /\ FunctionBody(CallAt(i + 1).key).kind = "settles"

\* an earlier call is pending on a function that never settles
BehindPending(i) ==
  \E j \in 1..(i - 1) :
    CallAt(j).state = "running" /\ FunctionBody(CallAt(j).key).kind = "never"

\* C24: there is no global invocation lock: a call of a function that
\* settles, also one issued while an earlier call is pending and never
\* settles, does settle; and a caller of ctx.invoke has settled only if its
\* target has, with the target's outcome.
C24_NoGlobalInvocationLock ==
  /\ \A i \in 1..MaxCalls : CanSettle(i) ~> (CallAt(i).state = "settled")
  /\ [](\A i \in 1..MaxCalls :
          (CallAt(i).state = "settled" /\ CallAt(i + 1).parent = i)
            => (CallAt(i + 1).state = "settled" /\ CallAt(i).out = CallAt(i + 1).out))

\* a call issued behind a pending one has settled while that one still pends
C24_Witness ==
  \E i \in 1..MaxCalls :
    /\ BehindPending(i)
    /\ CallAt(i).state = "settled"
    /\ ~CallAt(i).out.thrown
    /\ CallAt(i + 1).parent = i

\* ===========================================================================
\* Properties of the loader across lock and unlock
\* ===========================================================================
\* a later unlock has opened a database and its load has ended
ReloadDone == lpc = "idle" /\ handles >= 2 /\ db # NullDb

\* C25: module state is rebuilt on each unlock: after unlock, lock, unlock,
\* every exposed function of a module with the db capability is bound to a
\* Context whose handle is the one the most recent unlock opened.
C25_ContextsReboundOnUnlock ==
  ReloadDone =>
    \A i \in 1..Len(registry) : \A f \in DOMAIN registry[i].functions :
      CapDb(registry[i].manifest) => registry[i].functions[f].db = db

\* ===========================================================================
\* Properties of the key material
\* ===========================================================================
\* C26: after lockDB returns, db, keyBuffer and cachedPassphrase are null and
\* every key buffer derived by openEncryptedDB has been zeroized, for every
\* sequence of opens, also two opens with no lock in between.
C26_KeyMaterialWiped ==
  last.op = "lock" =>
    /\ db = NullDb
    /\ keyState.keyBuffer = 0
    /\ keyState.cachedPassphrase = "null"
    /\ \A n \in DOMAIN keyState.buffers : keyState.buffers[n] = "zero"

\* ===========================================================================
\* Properties of the manifest version
\* ===========================================================================
PositiveInteger(v) == v.half = 0 /\ v.whole >= 1

\* C27: manifest validation accepts a candidate only if its version is a
\* positive integer: a manifest whose version is zero, negative or not an
\* integer is rejected and not registered.
C27_VersionPositiveInteger ==
  \A i \in 1..Len(registry) : PositiveInteger(registry[i].manifest.version)

\* ===========================================================================
\* Properties of invoke during init
\* ===========================================================================
\* invoke(moduleId, fn, args) finds a tool under the key (tools.get), else it
\* throws FUNCTION_NOT_FOUND
Resolves(moduleId, fn) == ToolName(moduleId, fn) \in DOMAIN tools

\* C28: while the init hook of sources[cursor] is running, ctx.invoke(B, fn)
\* resolves if and only if B was fully registered earlier in discovery order:
\* a function of a module registered later, or one of the module's own
\* functions, is not found.
C28_InvokeDuringInit ==
  lpc = "init" =>
    \A k \in 1..Len(sources) : \A fn \in sources[k].functions :
      Resolves(sources[k].id, fn) <=> k < cursor

\* ===========================================================================
\* Properties of the resolution key
\* ===========================================================================
\* C29: resolution is exact and unambiguous: the function invoke(m, f, args)
\* runs is function f of module m, and no two distinct (moduleId,
\* functionName) pairs resolve to the same entry of the tool index.
C29_ResolutionExact ==
  \A k \in 1..Len(sources) : \A fn \in sources[k].functions :
    (sources[k].id \in ListModules /\ Resolves(sources[k].id, fn)) =>
      /\ tools[ToolName(sources[k].id, fn)].moduleId = sources[k].id
      /\ tools[ToolName(sources[k].id, fn)].fn = fn

\* ===========================================================================
\* patchModuleSettings step by step (loader.ts 191-215)
\* ===========================================================================
\* A call runs up to its first await at once: the schema check and, inside
\* getModuleSettings, the SELECT.  The merge, the validation and the INSERT
\* OR REPLACE run when the call resumes, after whatever else was started in
\* the meantime (a module that does not await one patchSettings before the
\* next, e.g. under Promise.all).
MaxPatches == 2

\* the diffs of the step-by-step runs: one key each, or one key twice
PatchDiffs ==
  { Obj1("logLevel", Str("debug")),
    Obj1("maxLogEntries", Num(50)),
    Obj1("maxLogEntries", Num(5)) }

\* patchSettings(diff) is called on a Context: the part before the first await
PatchStart ==
  \E c \in Contexts, diff \in PatchDiffs :
    LET id == c[2].moduleId
        started(state, current) ==
          [id |-> id, diff |-> diff, current |-> current, state |-> state,
           during |-> { i \in 1..Len(patches) : patches[i].state = "pending" }]
    IN /\ Len(patches) < MaxPatches
       /\ patches' = Append(patches,
            IF ~RegistryHas(id) \/ ~RegistryGet(id).manifest.settingsSchema.declared
              THEN started("no settings schema", EmptyObj)
            ELSE IF db = NullDb
              THEN started("Database not unlocked", EmptyObj)
            ELSE started("pending", GetModuleSettings(id)))
       /\ last' = [op |-> "patchStart", call |-> Len(patches) + 1]
       /\ UNCHANGED <<other, calls, keyState, db, handles, sources, lpc, cursor, cur, registry,
                      settingsTbl, storeVars, regVars, authVars>>

\* call i resumes: merge with the settings it read, validate, write
PatchFinish ==
  \E i \in 1..Len(patches) :
    LET p == patches[i]
        updated == SpreadMerge(p.current, p.diff)
        result == IF ~ValidateSettings(RegistryGet(p.id).manifest.settingsSchema, updated)
                    THEN "Invalid settings"
                  ELSE IF db = NullDb THEN "Database not unlocked"
                  ELSE "ok"
    IN /\ p.state = "pending"
       /\ patches' = [patches EXCEPT ![i].state = result]
       /\ settingsTbl' = IF result = "ok" THEN InsertOrReplace(p.id, Stringify(updated))
                         ELSE settingsTbl
       /\ last' = [op |-> "patchFinish", call |-> i]
       /\ UNCHANGED <<other, calls, keyState, db, handles, sources, lpc, cursor, cur, registry,
                      storeVars, regVars, authVars>>

NextPatches == NextLoader \/ PatchStart \/ PatchFinish

SpecPatches == InitSettings /\ [][NextPatches]_vars

\* ===========================================================================
\* Properties of overlapping patches
\* ===========================================================================
\* calls i and j of the same module overlapped in time, on disjoint keys, and
\* both have resolved
OverlappedAndResolved(i, j) ==
  /\ i \in patches[j].during
  /\ patches[i].id = patches[j].id
  /\ DOMAIN patches[i].diff \cap DOMAIN patches[j].diff = {}
  /\ patches[i].state = "ok"
  /\ patches[j].state = "ok"

\* C30: two patchSettings calls for the same module that overlap in time and
\* carry diffs on disjoint keys both take effect: after both have resolved,
\* getSettings() holds the values of both diffs.
C30_NoLostUpdate ==
  \A i, j \in 1..Len(patches) :
    OverlappedAndResolved(i, j) =>
      \A n \in {i, j} : \A k \in DOMAIN patches[n].diff :
        Read(GetModuleSettings(patches[n].id), k) = patches[n].diff[k]

\* ===========================================================================
\* Authentication and sync handlers (ipc.ts, auth.ts, db.ts), step by step.
\* The database file exists and is encrypted with "passphrase"; what
\* loadModules does to the registry is SpecRegistry's subject, and here only
\* whether it resolves or rejects.
\* ===========================================================================
Passphrases == {"passphrase", "wrong"}
Tokens == {"token"}

\* openEncryptedDB, line 36: the passphrase is cached before anything else
CachePassphrase(k, p) == [k EXCEPT !.cachedPassphrase = p]

\* openEncryptedDB, lines 42-49: a newly derived buffer is assigned to keyBuffer
AssignKey(k) ==
  [k EXCEPT !.keyBuffer = Len(k.buffers) + 1, !.buffers = Append(k.buffers, "key")]

\* setBiometricFlags: two upserts, one after the other with no await between
SetBiometricFlags(enabled, declined) ==
  [biometric_enabled |-> IF enabled THEN "1" ELSE "0",
   biometric_declined |-> IF declined THEN "1" ELSE "0"]

\* ghost:unlock / ghost:create-password up to the first await.  With a
\* password openEncryptedDB is entered at once and caches it; without one the
\* handler waits for maybeGetKeyFromTouchID.  fromLocked notes whether the
\* request arrived while the app was locked.
UnlockStart ==
  /\ unlocking.pc = "idle"
  /\ handles < MaxUnlocks
  /\ \E kind \in {"unlock", "create"}, password \in Passphrases \cup {"none"} :
       /\ kind = "create" => password # "none"
       /\ IF password = "none"
            THEN /\ unlocking' = [pc |-> "touchid", passphrase |-> "null", kind |-> kind,
                                    fromLocked |-> db = NullDb]
                 /\ UNCHANGED keyState
            ELSE /\ unlocking' = [pc |-> "open", passphrase |-> password, kind |-> kind,
                                    fromLocked |-> db = NullDb]
                 /\ keyState' = CachePassphrase(keyState, password)
       /\ last' = [op |-> "unlockStart", kind |-> kind, password |-> password]
  /\ UNCHANGED <<other, calls, patches, db, handles, sources, lpc, cursor, cur, registry, settingsTbl, storeVars, regVars,
                 openHandles, syncTimerVars, keychain, systemInfo, currentAuthToken, bio>>

\* maybeGetKeyFromTouchID settles: null when Touch ID fails or the keychain
\* has no entry, and the handler returns {success: false}; else the stored
\* key is the passphrase openEncryptedDB is entered with
UnlockTouchId ==
  /\ unlocking.pc = "touchid"
  /\ \E touch \in BOOLEAN :
       LET bioKey == IF touch THEN keychain ELSE "null" IN
       IF bioKey = "null"
         THEN /\ unlocking' = NoUnlock
              /\ last' = [op |-> "ghost:unlock", kind |-> unlocking.kind, success |-> FALSE, cause |-> "biometric"]
              /\ UNCHANGED keyState
         ELSE /\ unlocking' = [unlocking EXCEPT !.pc = "open", !.passphrase = bioKey]
              /\ keyState' = CachePassphrase(keyState, bioKey)
              /\ last' = [op |-> "unlockStart", kind |-> unlocking.kind, password |-> bioKey]
  /\ UNCHANGED <<other, calls, patches, db, handles, sources, lpc, cursor, cur, registry, settingsTbl, storeVars, regVars,
                 openHandles, syncTimerVars, keychain, systemInfo, currentAuthToken, bio>>

\* openEncryptedDB after its awaits: the key is derived and a Database object
\* created and assigned to db.  With the wrong passphrase db.exec throws, the
\* catch block calls lockDB() and the handler returns {success: false}; else
\* loadModules(db) starts.
UnlockOpen ==
  /\ unlocking.pc = "open"
  /\ handles' = handles + 1
  /\ IF unlocking.passphrase = "passphrase"
       THEN /\ db' = Handle(handles + 1)
            /\ openHandles' = openHandles \cup {handles + 1}
            /\ keyState' = AssignKey(keyState)
            /\ unlocking' = [unlocking EXCEPT !.pc = "load"]
            /\ last' = [op |-> "opened"]
       ELSE /\ db' = NullDb
            /\ openHandles' = CloseDb(openHandles \cup {handles + 1}, Handle(handles + 1))
            /\ keyState' = WipeKey(AssignKey(keyState))
            /\ unlocking' = NoUnlock
            /\ last' = [op |-> "ghost:unlock", kind |-> unlocking.kind, success |-> FALSE, cause |-> "open"]
  /\ UNCHANGED <<other, calls, patches, sources, lpc, cursor, cur, registry, settingsTbl, storeVars, regVars,
                 syncTimerVars, keychain, systemInfo, currentAuthToken, bio>>

\* ghost:unlock from `await getSavedAuthToken()` on, with SUPABASE_URL set:
\* SyncManager.init runs only if a token is saved and isEnabled() is true
UnlockSync ==
  LET init == currentAuthToken # "null" /\ syncEnabled IN
  /\ timers' = IF init THEN Append(timers, "active") ELSE timers
  /\ syncInterval' = IF init THEN Len(timers) + 1 ELSE syncInterval
  /\ last' = [op |-> "ghost:unlock", kind |-> unlocking.kind, success |-> TRUE, cause |-> "none",
              fromLocked |-> unlocking.fromLocked]
  /\ UNCHANGED systemInfo

\* ghost:create-password from `await canUseTouchID()` on:
\* setBiometricFlags(false, false) throws when the database has been locked
UnlockFlags ==
  /\ systemInfo' = IF db = NullDb THEN systemInfo ELSE SetBiometricFlags(FALSE, FALSE)
  /\ last' = [op |-> "ghost:unlock", kind |-> unlocking.kind, success |-> db # NullDb, cause |-> "flags"]
  /\ UNCHANGED syncTimerVars

\* `await moduleRegistry.loadModules(db)` settles; a rejection is caught by
\* the handler, which returns {success: false}
UnlockLoaded ==
  /\ unlocking.pc = "load"
  /\ (currentAuthToken # "null" /\ syncEnabled) => Len(timers) < MaxInits
  /\ unlocking' = NoUnlock
  /\ \E resolves \in BOOLEAN :
       IF ~resolves
         THEN /\ last' = [op |-> "ghost:unlock", kind |-> unlocking.kind, success |-> FALSE, cause |-> "load"]
              /\ UNCHANGED <<syncTimerVars, systemInfo>>
       ELSE IF unlocking.kind = "unlock" THEN UnlockSync
       ELSE UnlockFlags
  /\ UNCHANGED <<other, calls, keyState, patches, db, handles, sources, lpc, cursor, cur, registry, settingsTbl, storeVars, regVars,
                 openHandles, keychain, currentAuthToken, bio>>

\* ghost:enable-sync: refused while locked; else the token is kept and
\* SyncManager.init runs
EnableSync ==
  /\ Len(timers) < MaxInits
  /\ \E token \in Tokens :
       IF db = NullDb
         THEN /\ last' = [op |-> "ghost:enable-sync", success |-> FALSE]
              /\ UNCHANGED <<currentAuthToken, syncTimerVars, syncEnabled>>
         ELSE /\ currentAuthToken' = token
              /\ timers' = Append(timers, "active")
              /\ syncInterval' = Len(timers) + 1
              /\ syncEnabled' = TRUE
              /\ last' = [op |-> "ghost:enable-sync", success |-> TRUE]
  /\ UNCHANGED <<other, calls, keyState, patches, db, handles, sources, lpc, cursor, cur, registry, settingsTbl, regVars,
                 store, clock, syncTables, openHandles, keychain, systemInfo, unlocking, bio>>

\* ghost:disable-sync: SyncManager.shutdown, then the token is cleared
DisableSync ==
  /\ currentAuthToken # "null" \/ syncEnabled
  /\ timers' = ClearInterval(timers, syncInterval)
  /\ syncInterval' = 0
  /\ syncEnabled' = FALSE
  /\ syncTables' = {}
  /\ currentAuthToken' = "null"
  /\ last' = [op |-> "ghost:disable-sync", success |-> TRUE]
  /\ UNCHANGED <<other, calls, keyState, patches, db, handles, sources, lpc, cursor, cur, registry, settingsTbl, regVars,
                 store, clock, openHandles, keychain, systemInfo, unlocking, bio>>

\* ghost:enable-biometric up to `await storeKeyInKeychain(passphrase)`: the
\* two guards, then the cached passphrase is handed to keytar
EnableBiometricStart ==
  /\ bio.pc = "idle"
  /\ IF db = NullDb \/ keyState.cachedPassphrase = "null"
       THEN /\ bio' = NoBio
            /\ last' = [op |-> "ghost:enable-biometric", success |-> FALSE]
       ELSE /\ bio' = [pc |-> "store", passphrase |-> keyState.cachedPassphrase]
            /\ last' = [op |-> "enableBiometricStart"]
  /\ UNCHANGED <<other, calls, keyState, patches, db, handles, sources, lpc, cursor, cur, registry, settingsTbl, storeVars, regVars,
                 openHandles, syncTimerVars, keychain, systemInfo, currentAuthToken, unlocking>>

\* keytar.setPassword settles.  On failure the handler returns
\* {success: false}; else setBiometricFlags(true, false), which throws when
\* the database has been locked, and the handler rejects.
EnableBiometricStore ==
  /\ bio.pc = "store"
  /\ bio' = NoBio
  /\ \E stored \in BOOLEAN :
       /\ keychain' = IF stored THEN bio.passphrase ELSE keychain
       /\ systemInfo' = IF stored /\ db # NullDb THEN SetBiometricFlags(TRUE, FALSE) ELSE systemInfo
       /\ last' = [op |-> "ghost:enable-biometric", success |-> stored /\ db # NullDb]
  /\ UNCHANGED <<other, calls, keyState, patches, db, handles, sources, lpc, cursor, cur, registry, settingsTbl, storeVars, regVars,
                 openHandles, syncTimerVars, currentAuthToken, unlocking>>

\* ghost:disable-biometric up to `await removeKeyFromKeychain()`
DisableBiometricStart ==
  /\ bio.pc = "idle"
  /\ bio' = [pc |-> "remove", passphrase |-> "null"]
  /\ last' = [op |-> "disableBiometricStart"]
  /\ UNCHANGED <<other, calls, keyState, patches, db, handles, sources, lpc, cursor, cur, registry, settingsTbl, storeVars, regVars,
                 openHandles, syncTimerVars, keychain, systemInfo, currentAuthToken, unlocking>>

\* keytar.deletePassword settles: true if there was an entry.  If false the
\* handler returns {success: false}; else setBiometricFlags(false, true),
\* which throws when the database is locked, and the handler rejects.
DisableBiometricRemove ==
  /\ bio.pc = "remove"
  /\ bio' = NoBio
  /\ LET removed == keychain # "null" IN
       /\ keychain' = "null"
       /\ systemInfo' = IF removed /\ db # NullDb THEN SetBiometricFlags(FALSE, TRUE) ELSE systemInfo
       /\ last' = [op |-> "ghost:disable-biometric", success |-> removed /\ db # NullDb,
                   locked |-> db = NullDb]
  /\ UNCHANGED <<other, calls, keyState, patches, db, handles, sources, lpc, cursor, cur, registry, settingsTbl, storeVars, regVars,
                 openHandles, syncTimerVars, currentAuthToken, unlocking>>

InitAuth == InitLoader /\ sources = <<>>

NextAuth ==
  \/ UnlockStart \/ UnlockTouchId \/ UnlockOpen \/ UnlockLoaded \/ Lock
  \/ EnableSync \/ DisableSync
  \/ EnableBiometricStart \/ EnableBiometricStore
  \/ DisableBiometricStart \/ DisableBiometricRemove

SpecAuth == InitAuth /\ [][NextAuth]_vars

\* ===========================================================================
\* Further properties of overlapping loads
\* ===========================================================================
\* C31: for any interleaving of two overlapping loadBuiltin runs, each
\* module's init hook is invoked at most once (the two runs are never both
\* inside init of a manifest with the same id) and the registry entry of an
\* id is never replaced once set.
C31_InitOnceUnderOverlap ==
  /\ [](~(lpc = "init" /\ other.lpc = "init"
          /\ cur.manifest.id = other.cur.manifest.id))
  /\ [][\A i \in 1..Len(registry) : Len(registry') >= i /\ registry'[i] = registry[i]]_vars

\* C32: whenever getDB() is null, no Database object that openEncryptedDB
\* created is still open.
C32_NoHandleOpenWhenLocked == db = NullDb => openHandles = {}

\* loadModules has rejected: the handler's catch block returns
\* {success: false, error}
LoadModulesRejected ==
  last.op = "registerModule" /\ last.outcome \in {"schema failed", "init rejected"}

\* C33: whenever ghost:unlock or ghost:create-password returns
\* {success: false} because loading the modules failed, the database is
\* locked afterwards: getDB() is null.
C33_FailedUnlockLocks == LoadModulesRejected => db = NullDb

C35_BiometricFlagsConsistent ==
  /\ systemInfo.biometric_enabled = "1" => keychain # "null"
  /\ ~(systemInfo.biometric_enabled = "1" /\ systemInfo.biometric_declined = "1")

\* C36: after SyncManager.shutdown returns, no timer created by an earlier
\* SyncManager.init is still active and isEnabled() is false.
C36_ShutdownClearsEveryTimer ==
  last.op = "syncShutdown" =>
    /\ \A i \in DOMAIN timers : timers[i] = "cleared"
    /\ ~syncEnabled

\* defineTable has returned and has created its table
CreatedByDefineTable ==
  /\ last.op = "defineTable"
  /\ ~last.threw
  /\ ~TableExists(last.before, last.tbl)
  /\ TableExists(store, last.tbl)

\* C37: whenever isEnabled() is true, a table created through defineTable is
\* in the registered set of the sync manager: after the step that follows
\* the creation (SyncManager.init included), if sync is enabled the table is
\* registered.
C37_DefinedTablesRegistered ==
  [][(CreatedByDefineTable /\ syncEnabled') => last.tbl \in syncTables']_vars

\* C38: if sync was enabled (ghost:enable-sync succeeded and the token is
\* retained) and the app is locked and unlocked again, sync is enabled once
\* ghost:unlock has returned success and left the database open.
C38_SyncResumesOnUnlock ==
  (last.op = "ghost:unlock" /\ last.kind = "unlock" /\ last.success
     /\ last.fromLocked /\ db # NullDb /\ currentAuthToken # "null") => syncEnabled

\* ===========================================================================
\* Further properties of echo.reply
\* ===========================================================================
\* C39: every reply invocation on an initialised echo module succeeds and
\* adds exactly one new row to echo_log, also when the clock reads the same
\* millisecond as at an earlier reply.
C39_EveryReplyAddsARow ==
  [][(last'.op = "invokeModule" /\ last'.moduleId = Echo /\ last'.fn = ReplyName
        /\ last'.registered)
     => /\ ~last'.direct.thrown
        /\ Cardinality(Rows(store', EchoLog)) = Cardinality(Rows(store, EchoLog)) + 1]_vars

====
